---- MODULE Spec2Model ----
(***************************************************************************)
(* The offline reconciliation pass of the useRoutines hook                 *)
(* (src/src/hooks/useRoutines.ts, syncOfflineChangesEnhanced) together     *)
(* with the hook state it reads and writes and the offline storage module  *)
(* (src/unnamed/part_006).                                                  *)
(*                                                                         *)
(* A pass is an async function: it runs synchronously up to each await,    *)
(* so every action below is one awaited call together with the             *)
(* synchronous code that follows it up to the next await.  The guard of    *)
(* a pass reads isOffline and syncInProgress from the closure of the       *)
(* render that created the function, not from the live hook state.         *)
(***************************************************************************)
EXTENDS Integers, Sequences, FiniteSets, TLC

\* The two sources of a reconciliation trigger: the explicit "sync now"
\* action and the offline -> online transition.  Each starts one pass.
Triggers == {"manual", "online"}

\* Bounds of the stored collections the passes are run on.
MaxRoutines == 2
MaxSlots == 1
MaxFlags == 2

\* Bound of the number of other hook operations invoked in one behaviour.
MaxOps == 2

VARIABLES
  stubStore,        \* TRUE: the offline storage module is the disabled stub
  store,            \* content of the local store STORES.ROUTINES
  routines,         \* useState<Routine[]>  (in-memory collection)
  error,            \* useState<string | null>
  isOffline,        \* useOfflineStatus() as seen by the current render
  syncInProgress,   \* useState(false): the live hook state
  renderedSync,     \* syncInProgress as captured by the rendered closure
  nextId,           \* number of identifiers the remote service has assigned
  pc,               \* per pass: the await it is suspended at
  offlineRoutines,  \* per pass: const offlineRoutines
  syncedRoutines,   \* per pass: let syncedRoutines
  hasChanges,       \* per pass: let hasChanges
  syncErrors,       \* per pass: let syncErrors
  idx,              \* per pass: position of the for-of loop over offlineRoutines
  calls,            \* per pass: the remote calls it has issued, in order
  failed,           \* per pass: the routine each syncErrors++ was executed for
  settled,          \* per pass: state of the promise returned to the caller
  outcome,          \* per pass: how the pass ended
  opCount           \* number of other hook operations invoked so far

\* the state of the useRoutines hook and of its reconciliation passes
hookVars == <<stubStore, store, routines, error, isOffline, syncInProgress,
              renderedSync, nextId, pc, offlineRoutines, syncedRoutines,
              hasChanges, syncErrors, idx, calls, failed, settled, outcome, opCount>>

VARIABLES
  crud,             \* useTasks state and the outcome of the last create / update / delete handler
  auth,             \* useAuth: the session check and its retries
  taskLoad,         \* useTasks: loadTasks, retryCount and the pending retry timers
  taskManager,      \* TaskManager: its local task list and notifications
  loads,            \* loadRoutines calls in flight
  bulk              \* bulkImportTeachers: its input and its result

\* the state of the other components
others == <<crud, auth, taskLoad, taskManager, loads, bulk>>

vars == <<hookVars, others>>


\* the value of a component that a specification does not use
Unused == "none"

\* the other components before they are used
OthersIdle ==
  /\ crud = Unused
  /\ auth = Unused
  /\ taskLoad = Unused
  /\ taskManager = Unused
  /\ loads = Unused
  /\ bulk = Unused

shared == <<stubStore, store, routines, error, isOffline, syncInProgress,
            renderedSync, nextId>>

-----------------------------------------------------------------------------
(* Records.  A marker that is undefined in the code is FALSE here: the code *)
(* only ever tests markers for truthiness.                                  *)

RoutineFlags == {"isActive", "_isOffline", "_isOfflineUpdated", "_isOfflineDeleted",
                 "_needsActivationSync", "_needsDeactivationSync"}
SlotFlags == {"_isOffline", "_isOfflineUpdated", "_isOfflineDeleted"}

IsTempId(id) == id[1] = "temp"

RECURSIVE SubsetsUpTo(_, _)
SubsetsUpTo(S, n) ==
  IF n = 0 THEN {{}}
  ELSE LET T == SubsetsUpTo(S, n - 1)
       IN  T \cup {t \cup {x} : t \in T, x \in S}

MkSlot(i, k, F) ==
  [id                |-> IF <<i, k, "_isOffline">> \in F THEN <<"temp", i, k>> ELSE <<"s", i, k>>,
   day               |-> k,
   _isOffline        |-> <<i, k, "_isOffline">> \in F,
   _isOfflineUpdated |-> <<i, k, "_isOfflineUpdated">> \in F,
   _isOfflineDeleted |-> <<i, k, "_isOfflineDeleted">> \in F]

MkRoutine(i, n, F) ==
  [id                     |-> IF <<i, 0, "_isOffline">> \in F THEN <<"temp", i>> ELSE <<"r", i>>,
   name                   |-> i,
   isActive               |-> <<i, 0, "isActive">> \in F,
   _isOffline             |-> <<i, 0, "_isOffline">> \in F,
   _isOfflineUpdated      |-> <<i, 0, "_isOfflineUpdated">> \in F,
   _isOfflineDeleted      |-> <<i, 0, "_isOfflineDeleted">> \in F,
   _needsActivationSync   |-> <<i, 0, "_needsActivationSync">> \in F,
   _needsDeactivationSync |-> <<i, 0, "_needsDeactivationSync">> \in F,
   slots                  |-> [k \in 1..n |-> MkSlot(i, k, F)]]

FlagPositions(sc) ==
  {<<i, 0, f>> : i \in DOMAIN sc, f \in RoutineFlags}
    \cup {p \in {<<i, k, f>> : i \in DOMAIN sc, k \in 1..MaxSlots, f \in SlotFlags} : p[2] <= sc[p[1]]}

\* The stored collections a pass may find: up to MaxRoutines routines with
\* distinct identifiers, each with up to MaxSlots slots, at most MaxFlags
\* flags set in all; an identifier is temporary exactly when the record
\* carries the create marker.
Collections ==
  UNION {UNION {{[i \in 1..n |-> MkRoutine(i, sc[i], F)] : F \in SubsetsUpTo(FlagPositions(sc), MaxFlags)}
                : sc \in [1..n -> 0..MaxSlots]}
         : n \in 0..MaxRoutines}

-----------------------------------------------------------------------------
(* The offline storage module.                                             *)

\* getAllFromIndexedDB: the stub returns an empty list whatever is stored
getAllFromIndexedDB(stub, content) == IF stub THEN <<>> ELSE content

SaveKeepsContent(stub, content, data) == content

\* saveToIndexedDB: the stub is a no-op
saveToIndexedDB(stub, content, data) == IF stub THEN content ELSE data

-----------------------------------------------------------------------------
(* Pure parts of syncOfflineChangesEnhanced.                               *)

GuardIgnoresOffline(offline, inProgress) == inProgress

\* if (isOffline || syncInProgress) return;
Guard(offline, inProgress) == offline \/ inProgress

SlotHasChanges(slot) ==
  slot._isOffline \/ slot._isOfflineUpdated \/ slot._isOfflineDeleted

\* the negation of the "skip routines without offline changes" condition
HasOfflineChanges(routine) ==
  \/ routine._isOffline
  \/ routine._isOfflineUpdated
  \/ routine._isOfflineDeleted
  \/ routine._needsActivationSync
  \/ routine._needsDeactivationSync
  \/ \E k \in DOMAIN routine.slots : SlotHasChanges(routine.slots[k])

\* findIndex(r => r.id === id): 0 stands for -1
FindIndex(seq, id) ==
  IF \E k \in DOMAIN seq : seq[k].id = id
  THEN CHOOSE k \in DOMAIN seq : seq[k].id = id /\ \A m \in 1..(k - 1) : seq[m].id # id
  ELSE 0

\* filter(r => r.id !== id)
FilterOutId(seq, id) == SelectSeq(seq, LAMBDA r : r.id # id)

\* the next routine of the for-of loop that is not skipped
NextIndex(rs, i) ==
  IF \E j \in i..Len(rs) : HasOfflineChanges(rs[j])
  THEN CHOOSE j \in i..Len(rs) : HasOfflineChanges(rs[j]) /\ \A m \in i..(j - 1) : ~HasOfflineChanges(rs[m])
  ELSE Len(rs) + 1

HasSlotWork(routine) == \E k \in DOMAIN routine.slots : SlotHasChanges(routine.slots[k])

\* the await a routine reaches after the activation / deactivation block
PhaseAfterActivation(routine) ==
  IF routine._isOffline THEN "create"
  ELSE IF routine._isOfflineUpdated THEN "update"
  ELSE "slots"

FirstPhaseActivationFirst(routine) ==
  IF routine._needsActivationSync THEN "activate"
  ELSE IF routine._needsDeactivationSync THEN "deactivate"
  ELSE IF routine._isOfflineDeleted THEN "delete"
  ELSE PhaseAfterActivation(routine)

\* the first await a routine that is not skipped reaches
FirstPhase(routine) ==
  IF routine._isOfflineDeleted THEN "delete"
  ELSE IF routine._needsActivationSync THEN "activate"
  ELSE IF routine._needsDeactivationSync THEN "deactivate"
  ELSE PhaseAfterActivation(routine)

\* the position the pass is suspended at once the routines before index i
\* are done: the first await of the next routine that is not skipped, or
\* "end" when the loop is over
PosNext(rs, i) ==
  LET j == NextIndex(rs, i)
  IN  IF j > Len(rs) THEN [pc |-> "end", idx |-> j]
      ELSE [pc |-> FirstPhase(rs[j]), idx |-> j]

\* the position after a step of routine i that falls through to phase ph
PosAfter(rs, i, ph) ==
  IF ph = "slots" /\ ~HasSlotWork(rs[i]) THEN PosNext(rs, i + 1)
  ELSE [pc |-> ph, idx |-> i]

\* syncedRoutines[routineIndex] = {...syncedRoutines[routineIndex],
\*                                 isActive: true, _needsActivationSync: undefined}
ApplyActivation(synced, id) ==
  LET k == FindIndex(synced, id)
  IN  IF k > 0
      THEN [synced EXCEPT ![k] = [@ EXCEPT !.isActive = TRUE, !._needsActivationSync = FALSE]]
      ELSE synced

ApplyDeactivation(synced, id) ==
  LET k == FindIndex(synced, id)
  IN  IF k > 0
      THEN [synced EXCEPT ![k] = [@ EXCEPT !.isActive = FALSE, !._needsDeactivationSync = FALSE]]
      ELSE synced

\* const { _isOffline, id, ...routineData } = routine
CreatePayload(routine) ==
  [f \in (DOMAIN routine) \ {"_isOffline", "id"} |-> routine[f]]

UpdatePayloadWithMarkers(routine) ==
  [f \in (DOMAIN routine) \ {"slots"} |-> routine[f]]

\* const { _isOfflineUpdated, _isOffline, _needsActivationSync,
\*         _needsDeactivationSync, slots, ...routineData } = routine
UpdatePayload(routine) ==
  [f \in (DOMAIN routine) \ {"_isOfflineUpdated", "_isOffline", "_needsActivationSync",
                             "_needsDeactivationSync", "slots"} |-> routine[f]]

\* {...a, ...b}: the fields of b override those of a
Spread(a, b) ==
  [f \in (DOMAIN a) \cup (DOMAIN b) |-> IF f \in DOMAIN b THEN b[f] ELSE a[f]]

KeepTempRecord(synced, id, newRoutine) == Append(synced, newRoutine)

\* syncedRoutines = syncedRoutines.filter(r => r.id !== routine.id);
\* syncedRoutines.push(newRoutine)
ReplaceTemp(synced, id, newRoutine) == Append(FilterOutId(synced, id), newRoutine)

\* syncedRoutines[index] = {...syncedRoutines[index], ...routineData,
\*                          _isOfflineUpdated: undefined}
ApplyUpdate(synced, routine) ==
  LET k == FindIndex(synced, routine.id)
  IN  IF k > 0
      THEN [synced EXCEPT ![k] = [Spread(@, UpdatePayload(routine)) EXCEPT !._isOfflineUpdated = FALSE]]
      ELSE synced

AlwaysPersist(changed) == TRUE

\* if (hasChanges) { await saveToIndexedDB(...); setRoutines(...) }
ShouldPersist(changed) == changed

SettleRethrow == "rejected"

\* catch (err) { console.error(...); setError(...) } finally { ... }:
\* the async function completes normally after a throw inside the try block
SettleAfterThrow == "fulfilled"

-----------------------------------------------------------------------------
(* The remote data service (routine.service), consumed as a black box:     *)
(* every call either succeeds or fails; a create returns the submitted     *)
(* payload under a server-assigned identifier.                             *)

ServerId(n) == <<"srv", n>>

CreatedRoutine(routineData, n) ==
  [id                     |-> ServerId(n),
   name                   |-> routineData.name,
   isActive               |-> routineData.isActive,
   _isOffline             |-> FALSE,
   _isOfflineUpdated      |-> FALSE,
   _isOfflineDeleted      |-> FALSE,
   _needsActivationSync   |-> FALSE,
   _needsDeactivationSync |-> FALSE,
   slots                  |-> <<>>]

CreatedSlot(slotData, n) ==
  [id                |-> ServerId(n),
   day               |-> slotData.day,
   _isOffline        |-> FALSE,
   _isOfflineUpdated |-> FALSE,
   _isOfflineDeleted |-> FALSE]

\* a remote call: the operation, the routine it is made for, the record it
\* names, whether it succeeded and the identifier it returned (<<>>: none)
Call(op, rid, id, ok, ret) == [op |-> op, rid |-> rid, id |-> id, ok |-> ok, ret |-> ret]

-----------------------------------------------------------------------------
(* The slot loop of one routine.                                           *)

\* The loop calls deleteRoutineSlotService, addRoutineSlotService and
\* updateRoutineSlotService, but the module imports the slot functions as
\* addRoutineSlot, updateRoutineSlot and deleteRoutineSlot: the names the
\* loop uses are bound nowhere, so evaluating one throws a ReferenceError
\* inside the enclosing try before any remote call is issued.
SlotServicesBound == FALSE

\* one iteration of for (const slot of routine.slots) on a slot with markers;
\* acc = [slots, changed, errors, calls, fresh]
SlotIteration(routine, slot, ok, acc) ==
  LET op == IF slot._isOfflineDeleted THEN "deleteRoutineSlot"
            ELSE IF slot._isOffline THEN "addRoutineSlot"
            ELSE "updateRoutineSlot"
      k  == FindIndex(acc.slots, slot.id)
  IN  IF ~SlotServicesBound
      THEN [acc EXCEPT !.errors = @ + 1]
      ELSE IF ~ok
      THEN [acc EXCEPT !.errors = @ + 1, !.calls = Append(@, Call(op, routine.id, slot.id, FALSE, <<>>))]
      ELSE IF k = 0
      THEN [acc EXCEPT !.calls = Append(@, Call(op, routine.id, slot.id, TRUE,
                                                IF op = "addRoutineSlot" THEN ServerId(acc.fresh + 1) ELSE <<>>)),
                       !.fresh = IF op = "addRoutineSlot" THEN @ + 1 ELSE @]
      ELSE IF op = "deleteRoutineSlot"
      THEN [acc EXCEPT !.calls = Append(@, Call(op, routine.id, slot.id, TRUE, <<>>)),
                       !.changed = TRUE,
                       !.slots = SubSeq(@, 1, k - 1) \o SubSeq(@, k + 1, Len(@))]
      ELSE IF op = "addRoutineSlot"
      THEN [acc EXCEPT !.calls = Append(@, Call(op, routine.id, slot.id, TRUE, ServerId(acc.fresh + 1))),
                       !.changed = TRUE,
                       !.fresh = @ + 1,
                       !.slots = [@ EXCEPT ![k] = CreatedSlot(slot, acc.fresh + 1)]]
      ELSE [acc EXCEPT !.calls = Append(@, Call(op, routine.id, slot.id, TRUE, <<>>)),
                       !.changed = TRUE,
                       !.slots = [@ EXCEPT ![k] = [slot EXCEPT !._isOfflineUpdated = FALSE,
                                                                !._isOffline = FALSE]]]

RECURSIVE SlotLoop(_, _, _, _)
SlotLoop(routine, k, oks, acc) ==
  IF k > Len(routine.slots) THEN acc
  ELSE IF ~SlotHasChanges(routine.slots[k]) THEN SlotLoop(routine, k + 1, oks, acc)
  ELSE SlotLoop(routine, k + 1, oks, SlotIteration(routine, routine.slots[k], oks[k], acc))

\* if (slotsChanged) { syncedRoutines[routineIndex] = {..., slots: syncedSlots} }
ApplySlots(synced, id, acc) ==
  LET k == FindIndex(synced, id)
  IN  IF acc.changed /\ k > 0 THEN [synced EXCEPT ![k] = [@ EXCEPT !.slots = acc.slots]]
      ELSE synced

-----------------------------------------------------------------------------
(* The try / catch blocks around the routine-level calls: the working copy *)
(* after the call has settled.                                             *)

DeleteKeepsRecord(synced, id, ok) == synced

DeleteRemovesOnFailure(synced, id, ok) == FilterOutId(synced, id)

\* try { await deleteRoutineService(routine.id);
\*       syncedRoutines = syncedRoutines.filter(r => r.id !== routine.id) }
\* catch { syncErrors++ }
AfterDelete(synced, id, ok) == IF ok THEN FilterOutId(synced, id) ELSE synced

AfterActivation(synced, id, ok) == IF ok THEN ApplyActivation(synced, id) ELSE synced

AfterDeactivation(synced, id, ok) == IF ok THEN ApplyDeactivation(synced, id) ELSE synced

CreateAppliedOnFailure(synced, routine, ok, n) ==
  ReplaceTemp(synced, routine.id, CreatedRoutine(CreatePayload(routine), n))

AfterCreate(synced, routine, ok, n) ==
  IF ok THEN ReplaceTemp(synced, routine.id, CreatedRoutine(CreatePayload(routine), n))
  ELSE synced

UpdateAppliedOnFailure(synced, routine, ok) == ApplyUpdate(synced, routine)

AfterUpdate(synced, routine, ok) == IF ok THEN ApplyUpdate(synced, routine) ELSE synced

\* hasChanges after a block that sets it only when findIndex found the routine
ChangedIfFound(changed, synced, id, ok) == changed \/ (ok /\ FindIndex(synced, id) > 0)

-----------------------------------------------------------------------------
(* Initial state: the hook has just been constructed; the local store holds *)
(* what earlier sessions left in it.                                        *)

Init ==
  /\ stubStore \in BOOLEAN
  /\ store \in (IF stubStore THEN {<<>>} ELSE Collections)
  /\ routines = <<>>
  /\ error = "null"
  /\ isOffline \in BOOLEAN
  /\ syncInProgress = FALSE
  /\ renderedSync = FALSE
  /\ nextId = 0
  /\ pc = [p \in Triggers |-> "idle"]
  /\ offlineRoutines = [p \in Triggers |-> <<>>]
  /\ syncedRoutines = [p \in Triggers |-> <<>>]
  /\ hasChanges = [p \in Triggers |-> FALSE]
  /\ syncErrors = [p \in Triggers |-> 0]
  /\ idx = [p \in Triggers |-> 0]
  /\ calls = [p \in Triggers |-> <<>>]
  /\ failed = [p \in Triggers |-> <<>>]
  /\ settled = [p \in Triggers |-> "none"]
  /\ outcome = [p \in Triggers |-> "none"]
  /\ opCount = 0
  /\ OthersIdle

-----------------------------------------------------------------------------
(* Steps of a pass.                                                        *)

\* finally { setSyncInProgress(false) } on the normal path
Finish(p, how) ==
  /\ syncInProgress' = FALSE
  /\ pc' = [pc EXCEPT ![p] = "done"]
  /\ settled' = [settled EXCEPT ![p] = "fulfilled"]
  /\ outcome' = [outcome EXCEPT ![p] = how]

\* a throw inside the try block: catch (setError), then finally
Throw(p, how) ==
  /\ error' = "Failed to sync offline changes"
  /\ syncInProgress' = FALSE
  /\ pc' = [pc EXCEPT ![p] = "done"]
  /\ settled' = [settled EXCEPT ![p] = SettleAfterThrow]
  /\ outcome' = [outcome EXCEPT ![p] = how]

\* the synchronous code up to the next await, from position pos
Advance(p, pos, changed) ==
  /\ idx' = [idx EXCEPT ![p] = pos.idx]
  /\ IF pos.pc # "end"
     THEN /\ pc' = [pc EXCEPT ![p] = pos.pc]
          /\ UNCHANGED <<syncInProgress, settled, outcome>>
     ELSE IF ShouldPersist(changed)
     THEN /\ pc' = [pc EXCEPT ![p] = "save"]
          /\ UNCHANGED <<syncInProgress, settled, outcome>>
     ELSE Finish(p, "noChanges")

Routine(p) == offlineRoutines[p][idx[p]]

\* the bookkeeping every routine-level call shares: the call is logged and a
\* failure runs the catch block (syncErrors++)
Settle(p, call) ==
  /\ calls' = [calls EXCEPT ![p] = Append(@, call)]
  /\ syncErrors' = [syncErrors EXCEPT ![p] = IF call.ok THEN @ ELSE @ + 1]
  /\ failed' = [failed EXCEPT ![p] = IF call.ok THEN @ ELSE Append(@, call.rid)]

\* the pass is invoked: guard, setSyncInProgress(true), getAllFromIndexedDB is called
Start(p) ==
  /\ pc[p] = "idle"
  /\ IF Guard(isOffline, renderedSync)
     THEN /\ pc' = [pc EXCEPT ![p] = "done"]
          /\ settled' = [settled EXCEPT ![p] = "fulfilled"]
          /\ outcome' = [outcome EXCEPT ![p] = "guard"]
          /\ UNCHANGED syncInProgress
     ELSE /\ pc' = [pc EXCEPT ![p] = "read"]
          /\ syncInProgress' = TRUE
          /\ UNCHANGED <<settled, outcome>>
  /\ UNCHANGED <<others, opCount, stubStore, store, routines, error, isOffline, renderedSync, nextId,
                 offlineRoutines, syncedRoutines, hasChanges, syncErrors, idx, calls, failed>>

\* await getAllFromIndexedDB(STORES.ROUTINES) settles
ReadStore(p) ==
  /\ pc[p] = "read"
  /\ \E ok \in BOOLEAN :
       /\ stubStore => ok
       /\ IF ok
          THEN LET data == getAllFromIndexedDB(stubStore, store)
               IN  /\ offlineRoutines' = [offlineRoutines EXCEPT ![p] = data]
                   /\ syncedRoutines' = [syncedRoutines EXCEPT ![p] = data]
                   /\ Advance(p, PosNext(data, 1), FALSE)
                   /\ UNCHANGED error
          ELSE /\ Throw(p, "readError")
               /\ UNCHANGED <<offlineRoutines, syncedRoutines, idx>>
  /\ UNCHANGED <<others, opCount, stubStore, store, routines, isOffline, renderedSync, nextId,
                 hasChanges, syncErrors, calls, failed>>

\* await deleteRoutineService(routine.id) settles; then continue
DeleteStep(p) ==
  /\ pc[p] = "delete"
  /\ \E ok \in BOOLEAN :
       /\ Settle(p, Call("deleteRoutine", Routine(p).id, Routine(p).id, ok, <<>>))
       /\ syncedRoutines' = [syncedRoutines EXCEPT ![p] = AfterDelete(@, Routine(p).id, ok)]
       /\ hasChanges' = [hasChanges EXCEPT ![p] = @ \/ ok]
       /\ Advance(p, PosNext(offlineRoutines[p], idx[p] + 1), hasChanges[p] \/ ok)
  /\ UNCHANGED <<others, opCount, stubStore, store, routines, error, isOffline, renderedSync, nextId,
                 offlineRoutines>>

\* await activateRoutineService(routine.id) settles
ActivateStep(p) ==
  /\ pc[p] = "activate"
  /\ \E ok \in BOOLEAN :
       LET changed == ChangedIfFound(hasChanges[p], syncedRoutines[p], Routine(p).id, ok)
       IN  /\ Settle(p, Call("activateRoutine", Routine(p).id, Routine(p).id, ok, <<>>))
           /\ syncedRoutines' = [syncedRoutines EXCEPT ![p] = AfterActivation(@, Routine(p).id, ok)]
           /\ hasChanges' = [hasChanges EXCEPT ![p] = changed]
           /\ Advance(p, PosAfter(offlineRoutines[p], idx[p], PhaseAfterActivation(Routine(p))), changed)
  /\ UNCHANGED <<others, opCount, stubStore, store, routines, error, isOffline, renderedSync, nextId,
                 offlineRoutines>>

\* await deactivateRoutineService(routine.id) settles
DeactivateStep(p) ==
  /\ pc[p] = "deactivate"
  /\ \E ok \in BOOLEAN :
       LET changed == ChangedIfFound(hasChanges[p], syncedRoutines[p], Routine(p).id, ok)
       IN  /\ Settle(p, Call("deactivateRoutine", Routine(p).id, Routine(p).id, ok, <<>>))
           /\ syncedRoutines' = [syncedRoutines EXCEPT ![p] = AfterDeactivation(@, Routine(p).id, ok)]
           /\ hasChanges' = [hasChanges EXCEPT ![p] = changed]
           /\ Advance(p, PosAfter(offlineRoutines[p], idx[p], PhaseAfterActivation(Routine(p))), changed)
  /\ UNCHANGED <<others, opCount, stubStore, store, routines, error, isOffline, renderedSync, nextId,
                 offlineRoutines>>

\* await createRoutineService(routineData) settles; then continue
CreateStep(p) ==
  /\ pc[p] = "create"
  /\ \E ok \in BOOLEAN :
       /\ Settle(p, Call("createRoutine", Routine(p).id, Routine(p).id, ok,
                         IF ok THEN ServerId(nextId + 1) ELSE <<>>))
       /\ syncedRoutines' = [syncedRoutines EXCEPT ![p] = AfterCreate(@, Routine(p), ok, nextId + 1)]
       /\ nextId' = IF ok THEN nextId + 1 ELSE nextId
       /\ hasChanges' = [hasChanges EXCEPT ![p] = @ \/ ok]
       /\ Advance(p, PosNext(offlineRoutines[p], idx[p] + 1), hasChanges[p] \/ ok)
  /\ UNCHANGED <<others, opCount, stubStore, store, routines, error, isOffline, renderedSync, offlineRoutines>>

\* await updateRoutineService(routine.id, routineData) settles
UpdateStep(p) ==
  /\ pc[p] = "update"
  /\ \E ok \in BOOLEAN :
       LET changed == ChangedIfFound(hasChanges[p], syncedRoutines[p], Routine(p).id, ok)
       IN  /\ Settle(p, Call("updateRoutine", Routine(p).id, Routine(p).id, ok, <<>>))
           /\ syncedRoutines' = [syncedRoutines EXCEPT ![p] = AfterUpdate(@, Routine(p), ok)]
           /\ hasChanges' = [hasChanges EXCEPT ![p] = changed]
           /\ Advance(p, PosAfter(offlineRoutines[p], idx[p], "slots"), changed)
  /\ UNCHANGED <<others, opCount, stubStore, store, routines, error, isOffline, renderedSync, nextId,
                 offlineRoutines>>

\* the slot loop of the current routine and the write-back of its slots
SyncSlots(p) ==
  /\ pc[p] = "slots"
  /\ \E oks \in [DOMAIN Routine(p).slots -> BOOLEAN] :
       LET acc     == SlotLoop(Routine(p), 1, oks,
                               [slots |-> Routine(p).slots, changed |-> FALSE, errors |-> 0,
                                calls |-> <<>>, fresh |-> nextId])
           changed == ChangedIfFound(hasChanges[p], syncedRoutines[p], Routine(p).id, acc.changed)
       IN  /\ calls' = [calls EXCEPT ![p] = @ \o acc.calls]
           /\ syncedRoutines' = [syncedRoutines EXCEPT ![p] = ApplySlots(@, Routine(p).id, acc)]
           /\ nextId' = acc.fresh
           /\ hasChanges' = [hasChanges EXCEPT ![p] = changed]
           /\ syncErrors' = [syncErrors EXCEPT ![p] = @ + acc.errors]
           /\ failed' = [failed EXCEPT ![p] = @ \o [k \in 1..acc.errors |-> Routine(p).id]]
           /\ Advance(p, PosNext(offlineRoutines[p], idx[p] + 1), changed)
  /\ UNCHANGED <<others, opCount, stubStore, store, routines, error, isOffline, renderedSync, offlineRoutines>>

\* await saveToIndexedDB(STORES.ROUTINES, syncedRoutines): the store is written,
\* or the call fails and the catch and finally blocks run
SaveStep(p) ==
  /\ pc[p] = "save"
  /\ \E ok \in BOOLEAN :
       /\ stubStore => ok
       /\ IF ok
          THEN /\ store' = saveToIndexedDB(stubStore, store, syncedRoutines[p])
               /\ pc' = [pc EXCEPT ![p] = "saved"]
               /\ UNCHANGED <<error, syncInProgress, settled, outcome>>
          ELSE /\ Throw(p, "saveError")
               /\ UNCHANGED store
  /\ UNCHANGED <<others, opCount, stubStore, routines, isOffline, renderedSync, nextId, offlineRoutines,
                 syncedRoutines, hasChanges, syncErrors, idx, calls, failed>>

\* the code after the save: setRoutines(syncedRoutines), then finally
AfterSave(p) ==
  /\ pc[p] = "saved"
  /\ routines' = syncedRoutines[p]
  /\ Finish(p, "saved")
  /\ UNCHANGED <<others, opCount, stubStore, store, error, isOffline, renderedSync, nextId, offlineRoutines,
                 syncedRoutines, hasChanges, syncErrors, idx, calls, failed>>

-----------------------------------------------------------------------------
(* The environment of the passes.                                          *)

\* React re-renders the hook: the functions it returns from now on close
\* over the current value of syncInProgress
Render ==
  /\ renderedSync # syncInProgress
  /\ renderedSync' = syncInProgress
  /\ UNCHANGED <<others, opCount, stubStore, store, routines, error, isOffline, syncInProgress, nextId, pc,
                 offlineRoutines, syncedRoutines, hasChanges, syncErrors, idx, calls, failed,
                 settled, outcome>>

\* useOfflineStatus changes its value, which re-renders the hook
ConnectivityChange ==
  /\ isOffline' = ~isOffline
  /\ renderedSync' = syncInProgress
  /\ UNCHANGED <<others, opCount, stubStore, store, routines, error, syncInProgress, nextId, pc,
                 offlineRoutines, syncedRoutines, hasChanges, syncErrors, idx, calls, failed,
                 settled, outcome>>

Next ==
  \/ \E p \in Triggers : Start(p)
  \/ \E p \in Triggers : ReadStore(p)
  \/ \E p \in Triggers : DeleteStep(p)
  \/ \E p \in Triggers : ActivateStep(p)
  \/ \E p \in Triggers : DeactivateStep(p)
  \/ \E p \in Triggers : CreateStep(p)
  \/ \E p \in Triggers : UpdateStep(p)
  \/ \E p \in Triggers : SyncSlots(p)
  \/ \E p \in Triggers : SaveStep(p)
  \/ \E p \in Triggers : AfterSave(p)
  \/ Render
  \/ ConnectivityChange

Spec == Init /\ [][Next]_vars

-----------------------------------------------------------------------------
(* Vocabulary of the properties.                                           *)

Range(seq) == {seq[k] : k \in DOMAIN seq}

Count(seq, x) == Cardinality({k \in DOMAIN seq : seq[k] = x})

\* the pass is suspended at a remote call (or in the slot loop that makes them)
Issuing(p) == pc[p] \in {"delete", "activate", "deactivate", "create", "update", "slots"}

\* the pass has been started and has not yet run its finally block
Running(p) == pc[p] \notin {"idle", "done"}

\* the loop over the records is over: what syncedRoutines holds is the
\* collection the pass produces
LoopOver(p) ==
  \/ pc[p] \in {"save", "saved"}
  \/ pc[p] = "done" /\ outcome[p] \in {"noChanges", "saved", "saveError"}

\* the record with identifier id as the pass read it from the store
Original(p, id) == CHOOSE r \in Range(offlineRoutines[p]) : r.id = id

SlotUnmarked(slot) ==
  ~slot._isOffline /\ ~slot._isOfflineUpdated /\ ~slot._isOfflineDeleted

RoutineUnmarked(r) ==
  /\ ~r._isOffline /\ ~r._isOfflineUpdated /\ ~r._isOfflineDeleted
  /\ ~r._needsActivationSync /\ ~r._needsDeactivationSync

Unmarked(r) == RoutineUnmarked(r) /\ \A k \in DOMAIN r.slots : SlotUnmarked(r.slots[k])

OnlyCreateMarker(r) ==
  /\ r._isOffline /\ ~r._isOfflineUpdated /\ ~r._isOfflineDeleted
  /\ ~r._needsActivationSync /\ ~r._needsDeactivationSync

-----------------------------------------------------------------------------
(* The other operations of the hook that write the in-memory collection or *)
(* the local store.  Each is one invocation of the handler with the        *)
(* isOffline of the current render; its awaits settle before anything else *)
(* runs.                                                                   *)

\* prev.map(f) and existingRoutines.map(f)
MapRoutines(seq, F(_)) == [k \in DOMAIN seq |-> F(seq[k])]

RoutineIds(seq) == {seq[k].id : k \in DOMAIN seq}

SlotIds(seq, rid) ==
  UNION {{seq[k].slots[j].id : j \in DOMAIN seq[k].slots} : k \in {i \in DOMAIN seq : seq[i].id = rid}}

\* activateRoutine, offline branch: every routine is rewritten
ActivateOffline(seq, rid) ==
  MapRoutines(seq, LAMBDA r : [r EXCEPT !.isActive = (r.id = rid),
                                        !._needsActivationSync = (r.id = rid)])

\* activateRoutine, online branch
ActivateOnline(seq, rid) ==
  MapRoutines(seq, LAMBDA r : [r EXCEPT !.isActive = (r.id = rid)])

\* deactivateRoutine, offline branch
DeactivateOffline(seq, rid) ==
  MapRoutines(seq, LAMBDA r : [r EXCEPT !.isActive = IF r.id = rid THEN FALSE ELSE @,
                                        !._needsDeactivationSync = (r.id = rid)])

\* deactivateRoutine, online branch
DeactivateOnline(seq, rid) ==
  MapRoutines(seq, LAMBDA r : [r EXCEPT !.isActive = IF r.id = rid THEN FALSE ELSE @])

\* the index of a temporary slot identifier that no slot of the routine uses
\* (the code draws it from Date.now() and Math.random())
FreshSlotIndex(stored, mem, rid) ==
  CHOOSE k \in 1..(MaxSlots + MaxOps + 1) :
    /\ <<"temp", rid[2], k>> \notin SlotIds(stored, rid) \cup SlotIds(mem, rid)
    /\ \A m \in 1..(k - 1) : <<"temp", rid[2], m>> \in SlotIds(stored, rid) \cup SlotIds(mem, rid)

NewSlotUnmarked(rid, k, d) ==
  [id |-> <<"temp", rid[2], k>>, day |-> d,
   _isOffline |-> FALSE, _isOfflineUpdated |-> FALSE, _isOfflineDeleted |-> FALSE]

\* const newSlot = {...slot, id: tempId, routineId, createdAt, _isOffline: true}
NewSlot(rid, k, d) ==
  [id |-> <<"temp", rid[2], k>>, day |-> d,
   _isOffline |-> TRUE, _isOfflineUpdated |-> FALSE, _isOfflineDeleted |-> FALSE]

\* r.id === routineId ? {...r, slots: [...(r.slots || []), newSlot]} : r
AppendSlot(seq, rid, slot) ==
  MapRoutines(seq, LAMBDA r : IF r.id = rid THEN [r EXCEPT !.slots = Append(@, slot)] ELSE r)

MapSlots(seq, rid, F(_)) ==
  MapRoutines(seq, LAMBDA r : IF r.id = rid
                              THEN [r EXCEPT !.slots = [j \in DOMAIN r.slots |-> F(r.slots[j])]]
                              ELSE r)

\* updateRoutineSlot, offline branch, the stored copy:
\* slot.id === slotId ? {...slot, ...updates, _isOfflineUpdated: true} : slot
UpdateSlotStored(seq, rid, sid, d) ==
  MapSlots(seq, rid, LAMBDA sl : IF sl.id = sid
                                 THEN [sl EXCEPT !.day = d, !._isOfflineUpdated = TRUE]
                                 ELSE sl)

\* updateRoutineSlot, the in-memory copy: {...slot, ...updates}
UpdateSlotInMemory(seq, rid, sid, d) ==
  MapSlots(seq, rid, LAMBDA sl : IF sl.id = sid THEN [sl EXCEPT !.day = d] ELSE sl)

\* a stored copy in which a deleted slot is only marked, whoever created it
DeleteSlotStoredMarksOnly(seq, rid, sid) ==
  MapRoutines(seq, LAMBDA r :
    IF r.id = rid
    THEN [r EXCEPT !.slots = [j \in DOMAIN r.slots |->
                                IF r.slots[j].id = sid
                                THEN [r.slots[j] EXCEPT !._isOfflineDeleted = TRUE]
                                ELSE r.slots[j]]]
    ELSE r)

\* deleteRoutineSlot, offline branch, the stored copy: the slot is marked and
\* a slot created offline is removed at once
DeleteSlotStored(seq, rid, sid) ==
  MapRoutines(seq, LAMBDA r :
    IF r.id = rid
    THEN [r EXCEPT !.slots =
            SelectSeq([j \in DOMAIN r.slots |->
                         IF r.slots[j].id = sid
                         THEN [r.slots[j] EXCEPT !._isOfflineDeleted = TRUE]
                         ELSE r.slots[j]],
                      LAMBDA sl : ~(sl.id = sid /\ sl._isOffline))]
    ELSE r)

\* deleteRoutineSlot, the in-memory copy: slots.filter(slot => slot.id !== slotId)
DeleteSlotInMemory(seq, rid, sid) ==
  MapRoutines(seq, LAMBDA r :
    IF r.id = rid THEN [r EXCEPT !.slots = SelectSeq(@, LAMBDA sl : sl.id # sid)] ELSE r)

\* fetchRoutines: the collections the remote service may return, records
\* without local markers, each routine with all its slots
Fetched ==
  {c \in Collections : \A k \in DOMAIN c : Unmarked(c[k]) /\ Len(c[k].slots) = MaxSlots}

\* the identifiers a caller can name: those of the records on screen or stored
KnownRoutines == RoutineIds(store) \cup RoutineIds(routines)

\* setError(err.message) of an operation that threw (an unbound *Service
\* name, a rejected service or store call, 'Routine not found'), and the
\* message loadRoutines sets offline: the text of the message is not modelled
OpError == "operation failed"

\* what every other operation leaves alone: the passes and the render
HookFrame ==
  /\ opCount < MaxOps
  /\ opCount' = opCount + 1
  /\ UNCHANGED <<others, stubStore, isOffline, syncInProgress, renderedSync, nextId, pc,
                 offlineRoutines, syncedRoutines, hasChanges, syncErrors, idx, calls,
                 failed, settled, outcome>>

\* loadRoutines
LoadRoutines ==
  /\ HookFrame
  /\ IF isOffline
     THEN /\ routines' = <<>>
          /\ error' = OpError
     ELSE \/ \E data \in Fetched : routines' = data /\ error' = "null"
          \/ routines' = routines /\ error' = OpError
  /\ UNCHANGED store

\* addRoutineSlot(routineId, slot)
AddRoutineSlot ==
  /\ HookFrame
  /\ \E rid \in KnownRoutines, d \in 1..MaxSlots, storeOk \in BOOLEAN :
       LET content == getAllFromIndexedDB(stubStore, store)
           k       == FreshSlotIndex(store, routines, rid)
       IN  /\ stubStore => storeOk
           /\ \A r \in Range(store) \cup Range(routines) : r.id = rid => Len(r.slots) < MaxSlots
           /\ IF ~isOffline
              THEN /\ error' = OpError
                   /\ UNCHANGED <<store, routines>>
              ELSE IF ~storeOk
              THEN /\ error' = OpError
                   /\ UNCHANGED <<store, routines>>
              ELSE IF FindIndex(content, rid) = 0
              THEN /\ error' = OpError
                   /\ UNCHANGED <<store, routines>>
              ELSE /\ store' = saveToIndexedDB(stubStore, store, AppendSlot(content, rid, NewSlot(rid, k, d)))
                   /\ routines' = AppendSlot(routines, rid, NewSlot(rid, k, d))
                   /\ error' = "null"

\* updateRoutineSlot(routineId, slotId, updates)
UpdateRoutineSlot ==
  /\ HookFrame
  /\ \E rid \in KnownRoutines, d \in 0..MaxSlots, storeOk \in BOOLEAN :
       \E sid \in SlotIds(store, rid) \cup SlotIds(routines, rid) :
         LET content == getAllFromIndexedDB(stubStore, store)
         IN  /\ stubStore => storeOk
             /\ IF ~isOffline
                THEN /\ error' = OpError
                     /\ UNCHANGED <<store, routines>>
                ELSE IF ~storeOk
                THEN /\ error' = OpError
                     /\ UNCHANGED <<store, routines>>
                ELSE IF FindIndex(content, rid) = 0
                THEN /\ error' = "null"
                     /\ UNCHANGED <<store, routines>>
                ELSE /\ store' = saveToIndexedDB(stubStore, store, UpdateSlotStored(content, rid, sid, d))
                     /\ routines' = UpdateSlotInMemory(routines, rid, sid, d)
                     /\ error' = "null"

\* deleteRoutineSlot(routineId, slotId), with the outcome of its storage calls
deleteRoutineSlot(rid, sid, storeOk) ==
  LET content == getAllFromIndexedDB(stubStore, store)
  IN  /\ stubStore => storeOk
      /\ IF ~isOffline
         THEN /\ error' = OpError
              /\ UNCHANGED <<store, routines>>
         ELSE IF ~storeOk
         THEN /\ error' = OpError
              /\ UNCHANGED <<store, routines>>
         ELSE /\ store' = IF FindIndex(content, rid) = 0 THEN store
                          ELSE saveToIndexedDB(stubStore, store, DeleteSlotStored(content, rid, sid))
              /\ routines' = DeleteSlotInMemory(routines, rid, sid)
              /\ error' = "null"

DeleteRoutineSlot ==
  /\ HookFrame
  /\ \E rid \in KnownRoutines, storeOk \in BOOLEAN :
       \E sid \in SlotIds(store, rid) \cup SlotIds(routines, rid) :
         deleteRoutineSlot(rid, sid, storeOk)

\* activateRoutine(routineId), with the outcomes of its service and storage calls
activateRoutine(rid, serviceOk, storeOk) ==
  LET content == getAllFromIndexedDB(stubStore, store)
  IN  /\ stubStore => storeOk
      /\ isOffline => serviceOk
      /\ IF isOffline
         THEN /\ routines' = ActivateOffline(routines, rid)
              /\ store' = IF storeOk
                          THEN saveToIndexedDB(stubStore, store, ActivateOffline(content, rid))
                          ELSE store
              /\ error' = IF storeOk THEN "null" ELSE OpError
         ELSE IF ~serviceOk
         THEN /\ storeOk
              /\ error' = OpError
              /\ UNCHANGED <<store, routines>>
         ELSE /\ routines' = ActivateOnline(routines, rid)
              /\ store' = IF storeOk
                          THEN saveToIndexedDB(stubStore, store, ActivateOnline(content, rid))
                          ELSE store
              /\ error' = IF storeOk THEN "null" ELSE OpError

ActivateRoutine ==
  /\ HookFrame
  /\ \E rid \in KnownRoutines, serviceOk \in BOOLEAN, storeOk \in BOOLEAN :
       activateRoutine(rid, serviceOk, storeOk)

\* deactivateRoutine(routineId), with the outcomes of its service and storage calls
deactivateRoutine(rid, serviceOk, storeOk) ==
  LET content == getAllFromIndexedDB(stubStore, store)
  IN  /\ stubStore => storeOk
      /\ isOffline => serviceOk
      /\ IF isOffline
         THEN /\ routines' = DeactivateOffline(routines, rid)
              /\ store' = IF storeOk
                          THEN saveToIndexedDB(stubStore, store, DeactivateOffline(content, rid))
                          ELSE store
              /\ error' = IF storeOk THEN "null" ELSE OpError
         ELSE IF ~serviceOk
         THEN /\ storeOk
              /\ error' = OpError
              /\ UNCHANGED <<store, routines>>
         ELSE /\ routines' = DeactivateOnline(routines, rid)
              /\ store' = IF storeOk
                          THEN saveToIndexedDB(stubStore, store, DeactivateOnline(content, rid))
                          ELSE store
              /\ error' = IF storeOk THEN "null" ELSE OpError

DeactivateRoutine ==
  /\ HookFrame
  /\ \E rid \in KnownRoutines, serviceOk \in BOOLEAN, storeOk \in BOOLEAN :
       deactivateRoutine(rid, serviceOk, storeOk)

\* the steps of a pass after its invocation
PassStep(p) ==
  \/ ReadStore(p)
  \/ DeleteStep(p)
  \/ ActivateStep(p)
  \/ DeactivateStep(p)
  \/ CreateStep(p)
  \/ UpdateStep(p)
  \/ SyncSlots(p)
  \/ SaveStep(p)
  \/ AfterSave(p)

\* the stored collections the operations start from: what earlier sessions
\* left, without activation, deactivation and slot markers, which the
\* operations set themselves
HookStores ==
  {c \in Collections :
     \A k \in DOMAIN c : /\ ~c[k]._needsActivationSync /\ ~c[k]._needsDeactivationSync
                          /\ \A j \in DOMAIN c[k].slots : SlotUnmarked(c[k].slots[j])}

HookInit ==
  /\ Init
  /\ store \in HookStores \cup {<<>>}

\* one reconciliation pass, invoked by the manual trigger, among the other
\* operations of the hook
HookNext ==
  \/ Start("manual")
  \/ PassStep("manual")
  \/ Render
  \/ ConnectivityChange
  \/ LoadRoutines
  \/ AddRoutineSlot
  \/ UpdateRoutineSlot
  \/ DeleteRoutineSlot
  \/ ActivateRoutine
  \/ DeactivateRoutine

HookSpec == HookInit /\ [][HookNext]_vars

-----------------------------------------------------------------------------
(* C1 .. C10                                                               *)

\* C1: a second trigger while a pass is in progress is a no-op: at no time
\* are two passes both issuing remote calls.
C1_AtMostOnePassIssuesCalls ==
  \A p, q \in Triggers : p # q => ~(Issuing(p) /\ Issuing(q))

\* C2: a pass triggered while the system is offline returns at once: it does
\* not call the store, issues no remote call, does not set the in-progress
\* flag and leaves the store, the in-memory collection and the error alone.
C2_OfflineTriggerHasNoEffect ==
  [][\A p \in Triggers :
       (pc[p] = "idle" /\ pc'[p] # "idle" /\ isOffline)
         => /\ pc'[p] = "done"
            /\ outcome'[p] = "guard"
            /\ settled'[p] = "fulfilled"
            /\ UNCHANGED <<store, routines, error, syncInProgress, nextId, calls, failed,
                           offlineRoutines, syncedRoutines, hasChanges, syncErrors>>]_vars

C2_Witness ==
  \E p \in Triggers :
    /\ outcome[p] = "guard"
    /\ isOffline
    /\ \A q \in Triggers : outcome[q] \in {"none", "guard"} /\ pc[q] \in {"idle", "done"}
    /\ \E k \in DOMAIN store : ~Unmarked(store[k])

\* C3: the in-progress flag is never cleared before a pass that set it has
\* finished: while a pass is running the flag is set.
C3_FlagSetWhilePassRuns ==
  \A p \in Triggers : Running(p) => syncInProgress

\* C4: a pass over a collection without any marker issues no remote call,
\* does not write the store and leaves the stored and the in-memory
\* collection as they are.
C4_UnmarkedCollectionIsLeftAlone ==
  [][\A p \in Triggers :
       (/\ pc[p] = "read" /\ pc'[p] # "read" /\ outcome'[p] # "readError"
        /\ \A k \in DOMAIN offlineRoutines'[p] : Unmarked(offlineRoutines'[p][k]))
         => /\ pc'[p] = "done"
            /\ outcome'[p] = "noChanges"
            /\ calls'[p] = <<>>
            /\ syncedRoutines'[p] = offlineRoutines'[p]
            /\ UNCHANGED <<store, routines, error, nextId>>]_vars

C4_Witness ==
  \E p \in Triggers :
    /\ outcome[p] = "noChanges"
    /\ ~stubStore
    /\ Len(offlineRoutines[p]) = MaxRoutines
    /\ \A k \in DOMAIN offlineRoutines[p] : Unmarked(offlineRoutines[p][k])
    /\ \E k \in DOMAIN offlineRoutines[p] : offlineRoutines[p][k].slots # <<>>

\* C5: after a successful remote create of a routine that carries only the
\* create marker and a temporary identifier, the collection the pass produces
\* holds no record with the temporary identifier and exactly one record with
\* the server-assigned identifier, with the same payload and no marker.
C5_CreateReplacesTemporaryRecord ==
  \A p \in Triggers : \A c \in Range(calls[p]) :
    (c.op = "createRoutine" /\ c.ok /\ IsTempId(c.id) /\ OnlyCreateMarker(Original(p, c.id)))
      => /\ \A r \in Range(syncedRoutines[p]) : r.id # c.id
         /\ Cardinality({k \in DOMAIN syncedRoutines[p] : syncedRoutines[p][k].id = c.ret}) = 1
         /\ ~IsTempId(c.ret)
         /\ \A r \in Range(syncedRoutines[p]) :
              r.id = c.ret => /\ r.name = Original(p, c.id).name
                              /\ r.isActive = Original(p, c.id).isActive
                              /\ Unmarked(r)

C5_Witness ==
  \E p \in Triggers : \E c \in Range(calls[p]) :
    /\ c.op = "createRoutine" /\ c.ok /\ IsTempId(c.id)
    /\ OnlyCreateMarker(Original(p, c.id))
    /\ outcome[p] = "saved"
    /\ Len(syncedRoutines[p]) = MaxRoutines
    /\ routines = syncedRoutines[p]
    /\ store = syncedRoutines[p]

\* C6: after a successful remote delete of a delete-marked routine, the
\* routine is absent from the collection the pass produces, whatever other
\* markers it or its slots carry, and the delete is the only remote call the
\* pass issues for it.
C6_DeletedRoutineIsRemoved ==
  \A p \in Triggers : \A k \in DOMAIN calls[p] :
    (calls[p][k].op = "deleteRoutine" /\ calls[p][k].ok)
      => /\ \A r \in Range(syncedRoutines[p]) : r.id # calls[p][k].id
         /\ \A j \in DOMAIN calls[p] : j # k => calls[p][j].rid # calls[p][k].rid

C6_Witness ==
  \E p \in Triggers : \E c \in Range(calls[p]) :
    /\ c.op = "deleteRoutine" /\ c.ok
    /\ \/ Original(p, c.id)._isOfflineUpdated
       \/ Original(p, c.id)._needsActivationSync
       \/ \E k \in DOMAIN Original(p, c.id).slots : ~SlotUnmarked(Original(p, c.id).slots[k])
    /\ outcome[p] = "saved"
    /\ routines = syncedRoutines[p]
    /\ store = syncedRoutines[p]

\* C7: after a failed remote delete of a delete-marked routine, the routine
\* is in the collection the pass produces exactly as it was read, delete
\* marker included, and the error counter was incremented once for it.
C7_FailedDeleteLeavesRoutine ==
  \A p \in Triggers : \A c \in Range(calls[p]) :
    (c.op = "deleteRoutine" /\ ~c.ok)
      => /\ Count(syncedRoutines[p], Original(p, c.id)) = 1
         /\ Original(p, c.id)._isOfflineDeleted
         /\ Count(failed[p], c.rid) = 1
         /\ syncErrors[p] = Len(failed[p])

C7_Witness ==
  \E p \in Triggers :
    /\ pc[p] = "done"
    /\ Len(calls[p]) = 2
    /\ calls[p][1].op = "deleteRoutine" /\ ~calls[p][1].ok
    /\ calls[p][2].ok
    /\ syncErrors[p] = 1

\* C8 as stated: after a failed remote update the routine is unchanged by the
\* pass and the error counter was incremented exactly once on its account.
C8_FailedUpdateLeavesRoutineUnchanged ==
  \A p \in Triggers : LoopOver(p) =>
    \A c \in Range(calls[p]) :
      (c.op = "updateRoutine" /\ ~c.ok)
        => /\ Count(syncedRoutines[p], Original(p, c.id)) = 1
           /\ Count(failed[p], c.rid) = 1

\* C8 as amended: after a failed remote update the routine still carries its
\* update marker; when it carries no activation or deactivation marker and
\* none of its slots carries a marker, it is unchanged by the pass and the
\* error counter was incremented exactly once on its account.
C8_FailedUpdateKeepsMarker ==
  \A p \in Triggers : LoopOver(p) =>
    \A c \in Range(calls[p]) :
      (c.op = "updateRoutine" /\ ~c.ok)
        => /\ \E r \in Range(syncedRoutines[p]) : r.id = c.id /\ r._isOfflineUpdated
           /\ syncErrors[p] = Len(failed[p])
           /\ (/\ ~Original(p, c.id)._needsActivationSync
               /\ ~Original(p, c.id)._needsDeactivationSync
               /\ \A k \in DOMAIN Original(p, c.id).slots : SlotUnmarked(Original(p, c.id).slots[k]))
                => /\ Count(syncedRoutines[p], Original(p, c.id)) = 1
                   /\ Count(failed[p], c.rid) = 1

C8_Witness ==
  \E p \in Triggers :
    /\ pc[p] = "done"
    /\ \E c \in Range(calls[p]) :
         /\ c.op = "updateRoutine" /\ ~c.ok
         /\ ~Original(p, c.id)._needsActivationSync
         /\ ~Original(p, c.id)._needsDeactivationSync
         /\ Original(p, c.id).slots # <<>>
    /\ syncErrors[p] = 1

\* C9: when a pass has completed with every remote call succeeding and no
\* error counted, a pass that then runs on the collection it produced issues
\* no remote call.
C9_SecondPassIssuesNoCalls ==
  \A p, q \in Triggers :
    (/\ p # q
     /\ outcome[p] \in {"noChanges", "saved"}
     /\ \A c \in Range(calls[p]) : c.ok
     /\ syncErrors[p] = 0
     /\ LoopOver(q)
     /\ offlineRoutines[q] = syncedRoutines[p])
      => calls[q] = <<>>

\* C10: the promise a reconciliation trigger returns never rejects.
C10_PassNeverRejects ==
  \A p \in Triggers : settled[p] # "rejected"

C10_Witness ==
  \E p, q \in Triggers :
    /\ outcome[p] = "saveError" /\ syncErrors[p] > 0 /\ settled[p] = "fulfilled"
    /\ outcome[q] = "readError" /\ settled[q] = "fulfilled"

-----------------------------------------------------------------------------
(* C11 .. C17                                                              *)

ActivationOps == {"activateRoutine", "deactivateRoutine"}

\* the marker a routine-level activation or deactivation call replays
MarkerOf(op, r) ==
  IF op = "activateRoutine" THEN r._needsActivationSync ELSE r._needsDeactivationSync

\* C11: after a failed remote activation (deactivation) the error counter
\* was incremented for the routine and the routine is in the collection the
\* pass produces with its activation (deactivation) marker still set,
\* whatever its other markers and the outcome of its other calls.
C11_FailedActivationKeepsMarker ==
  \A p \in Triggers : LoopOver(p) =>
    \A c \in Range(calls[p]) :
      (c.op \in ActivationOps /\ ~c.ok)
        => /\ Count(failed[p], c.rid) >= 1
           /\ \E r \in Range(syncedRoutines[p]) : r.id = c.id /\ MarkerOf(c.op, r)

\* C12: after a successful remote activation (deactivation) the routine has,
\* in the collection the pass produces, its active flag true (false) and the
\* marker cleared, also when it carries an update marker.
C12_ActivationSetsActiveFlag ==
  \A p \in Triggers : LoopOver(p) =>
    \A c \in Range(calls[p]) :
      (c.op \in ActivationOps /\ c.ok)
        => \A r \in Range(syncedRoutines[p]) :
             r.id = c.id => /\ r.isActive = (c.op = "activateRoutine")
                            /\ ~MarkerOf(c.op, r)

\* a routine without markers whose only slot is a slot created offline
OnlySlotCreate(r) ==
  /\ RoutineUnmarked(r)
  /\ Len(r.slots) = 1
  /\ IsTempId(r.slots[1].id)
  /\ r.slots[1]._isOffline /\ ~r.slots[1]._isOfflineUpdated /\ ~r.slots[1]._isOfflineDeleted

\* C13: for a routine without markers whose one slot has a temporary
\* identifier and a create marker, the pass issues exactly one remote call,
\* the create of that slot; when it succeeds, the routine is in the produced
\* collection unchanged but for the slot, which is the server-returned slot.
C13_SlotCreateIsReplayed ==
  \A p \in Triggers : LoopOver(p) =>
    \A r \in Range(offlineRoutines[p]) :
      OnlySlotCreate(r)
        => /\ Cardinality({k \in DOMAIN calls[p] : calls[p][k].rid = r.id}) = 1
           /\ \A c \in Range(calls[p]) :
                c.rid = r.id
                  => /\ c.op = "addRoutineSlot" /\ c.id = r.slots[1].id
                     /\ c.ok => /\ ~IsTempId(c.ret)
                                /\ Count(syncedRoutines[p],
                                         [r EXCEPT !.slots = <<[r.slots[1] EXCEPT !.id = c.ret,
                                                                                  !._isOffline = FALSE]>>]) = 1

\* the place of an operation in the order of one routine's calls
OpRank(op) ==
  IF op = "deleteRoutine" THEN 1
  ELSE IF op \in ActivationOps THEN 2
  ELSE IF op \in {"createRoutine", "updateRoutine"} THEN 3
  ELSE 4

Changed(p) == syncedRoutines[p] # offlineRoutines[p]

\* C15 as stated: a pass that has ended after its loop has written the store
\* and installed the in-memory collection exactly when a routine or slot
\* changed during the pass.
C15_WrittenIffChanged ==
  \A p \in Triggers :
    (pc[p] = "done" /\ LoopOver(p)) => (Changed(p) <=> outcome[p] = "saved")

\* C15 as amended: a pass calls the store write exactly when a routine or
\* slot changed during the pass; a pass that changed nothing writes neither
\* the store nor the in-memory collection; a write that succeeds stores the
\* full collection the pass produced and the pass then installs that same
\* value in memory; a write that fails leaves store and memory unwritten.
C15_PersistIffChanged ==
  /\ [](\A p \in Triggers :
          LoopOver(p) => /\ Changed(p) <=> hasChanges[p]
                         /\ Changed(p) <=> (pc[p] \in {"save", "saved"}
                                              \/ outcome[p] \in {"saved", "saveError"}))
  /\ [][\A p \in Triggers :
          pc'[p] # pc[p]
            => /\ store' # store => pc[p] = "save"
               /\ routines' # routines => pc[p] = "saved"
               /\ pc'[p] = "saved" => store' = syncedRoutines[p] /\ routines' = routines
               /\ outcome'[p] = "saved" => routines' = syncedRoutines[p] /\ store' = store
               /\ outcome'[p] = "saveError" => store' = store /\ routines' = routines]_vars

C15_Witness ==
  \E p, q \in Triggers :
    /\ outcome[p] = "saved" /\ store = syncedRoutines[p] /\ routines = store
    /\ Len(store) = MaxRoutines /\ syncErrors[p] = 1
    /\ outcome[q] = "noChanges" /\ offlineRoutines[q] = store /\ syncErrors[q] = 1

\* C16: the error count of a pass is the number of records that failed in it.
C16_ErrorCountIsFailedRecords ==
  \A p \in Triggers : LoopOver(p) => syncErrors[p] = Cardinality(Range(failed[p]))

\* C17: in every pass each routine that carries a marker and each marked
\* slot of a routine without markers has a remote call attempted for it,
\* whatever the outcome of the calls made before.
C17_EveryMarkedRecordIsAttempted ==
  \A p \in Triggers : LoopOver(p) =>
    \A r \in Range(offlineRoutines[p]) :
      IF RoutineUnmarked(r)
      THEN \A k \in DOMAIN r.slots :
             ~SlotUnmarked(r.slots[k]) => \E c \in Range(calls[p]) : c.id = r.slots[k].id
      ELSE \E c \in Range(calls[p]) : c.rid = r.id /\ c.id = r.id

-----------------------------------------------------------------------------
(* C18 .. C20, of the pass among the other operations of the hook          *)

\* the pass has read the stored collection and not yet made its final write
PassWindow(p) ==
  pc[p] \in {"delete", "activate", "deactivate", "create", "update", "slots", "save", "saved"}

\* C18: between the initial read and the final write of a pass, the store
\* and the in-memory collection are written by the steps of the pass only.
C18_ReconcilerIsSoleWriter ==
  [][(\E p \in Triggers : PassWindow(p))
       => ((store' # store \/ routines' # routines) => \E p \in Triggers : pc'[p] # pc[p])]_vars

\* C19: with the stub storage module a pass issues no remote call, counts no
\* error, ends without anything to persist, and no step of a pass changes
\* the in-memory collection or the store, whatever the in-memory routines
\* carry.
C19_StubPassDoesNothing ==
  /\ [](stubStore => \A p \in Triggers :
                       /\ calls[p] = <<>>
                       /\ syncErrors[p] = 0
                       /\ outcome[p] \in {"none", "guard", "noChanges"})
  /\ [][stubStore => \A p \in Triggers :
                       pc'[p] # pc[p] => /\ routines' = routines
                                         /\ store' = store
                                         /\ nextId' = nextId]_vars

C19_Witness ==
  /\ stubStore
  /\ outcome["manual"] = "noChanges"
  /\ Len(routines) = MaxRoutines
  /\ \E k \in DOMAIN routines : routines[k]._needsActivationSync

\* every routine and slot of the collection with a temporary identifier
\* carries the create marker
TempIsMarked(seq) ==
  \A k \in DOMAIN seq :
    /\ IsTempId(seq[k].id) => seq[k]._isOffline
    /\ \A j \in DOMAIN seq[k].slots : IsTempId(seq[k].slots[j].id) => seq[k].slots[j]._isOffline

\* within the collection, the record (routine or slot) with identifier id
\* carries no create marker
NoCreateMarker(seq, id) ==
  \A k \in DOMAIN seq :
    /\ seq[k].id = id => ~seq[k]._isOffline
    /\ \A j \in DOMAIN seq[k].slots : seq[k].slots[j].id = id => ~seq[k].slots[j]._isOffline

\* C20: in the stored and the in-memory collection every routine and slot
\* with a temporary identifier carries a create marker, and the record of a
\* successful create has a server-assigned identifier and no create marker.
C20_TemporaryIdIffCreateMarker ==
  /\ TempIsMarked(store)
  /\ TempIsMarked(routines)
  /\ \A p \in Triggers :
       /\ TempIsMarked(syncedRoutines[p])
       /\ \A c \in Range(calls[p]) :
            (c.op \in {"createRoutine", "addRoutineSlot"} /\ c.ok)
              => /\ c.ret = ServerId(c.ret[2]) /\ ~IsTempId(c.ret)
                 /\ \E r \in Range(syncedRoutines[p]) : r.id = c.ret
                 /\ NoCreateMarker(syncedRoutines[p], c.ret)
                 /\ outcome[p] = "saved" => NoCreateMarker(routines, c.ret)

C20_Witness ==
  /\ opCount > 0
  /\ outcome["manual"] = "saved"
  /\ \E c \in Range(calls["manual"]) : c.op = "createRoutine" /\ c.ok
  /\ store = syncedRoutines["manual"]
  /\ routines = store
  /\ \E k \in DOMAIN store : \E j \in DOMAIN store[k].slots :
       IsTempId(store[k].slots[j].id) /\ store[k].slots[j]._isOffline

-----------------------------------------------------------------------------
(* C21 .. C25                                                              *)

SlotOps == {"deleteRoutineSlot", "addRoutineSlot", "updateRoutineSlot"}

\* C21 as stated: for a create-marked routine no update call and no slot
\* call is issued in the pass, and after a failed create the routine is in
\* the produced collection as it was read, with the error counter
\* incremented for it.
C21_CreateStopsAndFailureLeavesRoutine ==
  \A p \in Triggers : LoopOver(p) =>
    \A c \in Range(calls[p]) :
      c.op = "createRoutine"
        => /\ \A d \in Range(calls[p]) :
                d.rid = c.rid => d.op \notin SlotOps \cup {"updateRoutine"}
           /\ ~c.ok => /\ Count(syncedRoutines[p], Original(p, c.id)) = 1
                       /\ Count(failed[p], c.rid) >= 1

\* C21 as amended: for a create-marked routine the create is the last thing
\* the pass does for it (no update call, no slot call, no slot error); after
\* a failed create the routine is in the produced collection with its
\* temporary identifier and create marker and the error counter was
\* incremented for it; it is exactly as read, with one error counted, when
\* it carries no activation or deactivation marker.
C21_CreateIsLastStep ==
  \A p \in Triggers : LoopOver(p) =>
    \A k \in DOMAIN calls[p] :
      calls[p][k].op = "createRoutine"
        => LET c == calls[p][k]
               r == Original(p, c.id)
           IN  /\ \A j \in DOMAIN calls[p] : calls[p][j].rid = c.rid => j <= k
               /\ Count(failed[p], c.rid)
                    = Cardinality({j \in DOMAIN calls[p] : calls[p][j].rid = c.rid /\ ~calls[p][j].ok})
               /\ ~c.ok => /\ \E t \in Range(syncedRoutines[p]) : t.id = c.id /\ t._isOffline
                           /\ Count(failed[p], c.rid) >= 1
                           /\ (~r._needsActivationSync /\ ~r._needsDeactivationSync)
                                => /\ Count(syncedRoutines[p], r) = 1
                                   /\ Count(failed[p], c.rid) = 1

C21_Witness ==
  \E p \in Triggers : \E c \in Range(calls[p]) :
    /\ pc[p] = "done"
    /\ c.op = "createRoutine" /\ ~c.ok
    /\ \/ Original(p, c.id)._isOfflineUpdated
       \/ \E j \in DOMAIN Original(p, c.id).slots : ~SlotUnmarked(Original(p, c.id).slots[j])
    /\ syncErrors[p] = 1

MarkerFields == {"_isOffline", "_isOfflineUpdated", "_isOfflineDeleted",
                 "_needsActivationSync", "_needsDeactivationSync"}

\* C22: the payload of a remote update has no marker set and no slots; after
\* a successful update the routine is in the produced collection with the
\* payload fields, its update marker cleared and its slots as read.
C22_UpdateSendsCleanPayloadAndMerges ==
  \A p \in Triggers : LoopOver(p) =>
    \A c \in Range(calls[p]) :
      c.op = "updateRoutine"
        => LET r  == Original(p, c.id)
               pl == UpdatePayload(r)
           IN  /\ \A f \in MarkerFields : f \in DOMAIN pl => ~pl[f]
               /\ "slots" \notin DOMAIN pl
               /\ c.ok => \E t \in Range(syncedRoutines[p]) :
                            /\ t.id = c.id
                            /\ ~t._isOfflineUpdated
                            /\ \A f \in DOMAIN pl : t[f] = pl[f]
                            /\ t.slots = r.slots

C22_Witness ==
  \E p \in Triggers : \E c \in Range(calls[p]) :
    /\ outcome[p] = "saved"
    /\ c.op = "updateRoutine" /\ c.ok
    /\ Original(p, c.id).slots # <<>>
    /\ Original(p, c.id)._needsDeactivationSync
    /\ store = syncedRoutines[p]

\* the slots of routine rid in a collection that carry the identifier sid
SlotsOf(seq, rid, sid) ==
  UNION {{seq[k].slots[j] : j \in {i \in DOMAIN seq[k].slots : seq[k].slots[i].id = sid}} :
           k \in {i \in DOMAIN seq : seq[i].id = rid}}

\* an offline deleteRoutineSlot(rid, sid) whose storage calls succeed
OfflineDelete(rid, sid) == isOffline /\ HookFrame /\ deleteRoutineSlot(rid, sid, TRUE)

\* C24: an offline deleteRoutineSlot removes a stored slot that was created
\* offline (temporary identifier, create marker) from the stored collection,
\* keeps any other stored slot with its delete marker set, and in both cases
\* removes the slot from the in-memory collection.
C24_OfflineSlotDelete ==
  [][\A rid \in KnownRoutines : \A sid \in SlotIds(store, rid) \cup SlotIds(routines, rid) :
       OfflineDelete(rid, sid) =>
         /\ sid \notin SlotIds(routines', rid)
         /\ \A sl \in SlotsOf(store, rid, sid) :
              IF sl._isOffline
              THEN IsTempId(sl.id) /\ sid \notin SlotIds(store', rid)
              ELSE SlotsOf(store', rid, sid) = {[sl EXCEPT !._isOfflineDeleted = TRUE]}]_vars

\* a stored slot of the remote service carries the delete marker and is gone
\* from the in-memory copy of its routine
C24_Witness ==
  \E k \in DOMAIN store, m \in DOMAIN routines :
    /\ routines[m].id = store[k].id
    /\ \E j \in DOMAIN store[k].slots :
         /\ store[k].slots[j]._isOfflineDeleted
         /\ ~store[k].slots[j]._isOffline
         /\ store[k].slots[j].id \notin SlotIds(routines, routines[m].id)

\* the pending activation and deactivation markers of a routine
PendingMarkers(r) == <<r._needsActivationSync, r._needsDeactivationSync>>

\* the pending markers of every routine of a collection other than rid
OtherMarkers(seq, rid) ==
  [k \in {i \in DOMAIN seq : seq[i].id # rid} |-> <<seq[k].id, PendingMarkers(seq[k])>>]

\* an offline activateRoutine(rid) or deactivateRoutine(rid)
OfflineSwitch(rid) ==
  /\ isOffline
  /\ HookFrame
  /\ \E storeOk \in BOOLEAN : \/ activateRoutine(rid, TRUE, storeOk)
                              \/ deactivateRoutine(rid, TRUE, storeOk)

\* C25: an offline activateRoutine(r) or deactivateRoutine(r) leaves the
\* pending activation and deactivation markers of every routine other than r
\* unchanged, in the stored and in the in-memory collection.
C25_OtherRoutinesKeepMarkers ==
  [][\A rid \in KnownRoutines :
       OfflineSwitch(rid) =>
         /\ OtherMarkers(store', rid) = OtherMarkers(store, rid)
         /\ OtherMarkers(routines', rid) = OtherMarkers(routines, rid)]_vars

\* ---------------------------------------------------------------------------
\* The create / update / delete handlers of useRoutines and useTasks
\* ---------------------------------------------------------------------------

MaxTasks == 2

\* every variable of the reconciliation passes at rest, the store empty
PassIdle ==
  /\ stubStore = FALSE
  /\ store = <<>>
  /\ error = "null"
  /\ syncInProgress = FALSE
  /\ renderedSync = FALSE
  /\ nextId = 0
  /\ pc = [p \in Triggers |-> "idle"]
  /\ offlineRoutines = [p \in Triggers |-> <<>>]
  /\ syncedRoutines = [p \in Triggers |-> <<>>]
  /\ hasChanges = [p \in Triggers |-> FALSE]
  /\ syncErrors = [p \in Triggers |-> 0]
  /\ idx = [p \in Triggers |-> 0]
  /\ calls = [p \in Triggers |-> <<>>]
  /\ failed = [p \in Triggers |-> <<>>]
  /\ settled = [p \in Triggers |-> "none"]
  /\ outcome = [p \in Triggers |-> "none"]
  /\ opCount = 0

passVars == <<stubStore, store, error, syncInProgress, renderedSync, pc, offlineRoutines,
              syncedRoutines, hasChanges, syncErrors, idx, calls, failed, settled, outcome>>

MkTask(i) == [id |-> <<"t", i>>, name |-> i]

\* the task lists useTasks may hold: the first n tasks of the user
TaskLists == {[i \in 1..n |-> MkTask(i)] : n \in 0..MaxTasks}

TaskIds(seq) == {seq[k].id : k \in DOMAIN seq}

\* the handlers
Handlers == {"createRoutine", "updateRoutine", "deleteRoutine",
             "createTask", "updateTask", "deleteTask"}

\* a guard that lets every invocation through
NeverRejects(offline) == FALSE

\* if (isOffline) { throw new Error('Cannot ... while offline') }
OfflineGuard(offline) == offline

\* if (!userId) { throw new Error('User ID is required') }
UserGuard(userId) == userId = "null"

\* the record of the invocation made last: the handler, the connectivity it
\* saw, and how far it got
Invocation(h, arg, result) == [handler |-> h, arg |-> arg, offline |-> isOffline, result |-> result]

\* the handler threw before its try block: nothing is called, nothing is set
Reject(h, arg) ==
  /\ crud' = [crud EXCEPT !.last = Invocation(h, arg, "rejected")]
  /\ UNCHANGED <<routines, nextId>>

\* the handler reached its await: the remote call is issued and the handler
\* waits for it
Issue(h, arg) ==
  /\ crud' = [crud EXCEPT !.last = Invocation(h, arg, "awaiting"),
                          !.serviceCalls = @ + 1,
                          !.pending = @ \cup {[handler |-> h, arg |-> arg,
                                               found |-> arg \in RoutineIds(routines)]}]
  /\ UNCHANGED <<routines, nextId>>

CrudFrame ==
  /\ opCount < MaxOps
  /\ opCount' = opCount + 1
  /\ UNCHANGED <<passVars, isOffline, auth, taskLoad, taskManager, loads, bulk>>

\* the updates a caller passes
Updates == {[name |-> 0]}

\* setRoutines(prev => prev.map(routine => routine.id === routineId ? {...routine, ...updates} : routine))
MergeById(seq, id, updates) ==
  [k \in DOMAIN seq |-> IF seq[k].id = id THEN Spread(seq[k], updates) ELSE seq[k]]

\* the identifiers a caller of a routine handler can name
RoutineArgs == RoutineIds(routines) \cup {<<"r", 0>>}

\* the identifiers a caller of a task handler can name
TaskArgs == TaskIds(crud.tasks) \cup {<<"t", 0>>}

handleCreateRoutine ==
  /\ CrudFrame
  /\ IF OfflineGuard(isOffline) THEN Reject("createRoutine", <<"new">>)
                                ELSE Issue("createRoutine", <<"new">>)

handleUpdateRoutine ==
  /\ CrudFrame
  /\ \E routineId \in RoutineArgs :
       IF OfflineGuard(isOffline) THEN Reject("updateRoutine", routineId)
                                  ELSE Issue("updateRoutine", routineId)

handleDeleteRoutine ==
  /\ CrudFrame
  /\ \E routineId \in RoutineArgs :
       IF OfflineGuard(isOffline) THEN Reject("deleteRoutine", routineId)
                                  ELSE Issue("deleteRoutine", routineId)

handleCreateTask ==
  /\ CrudFrame
  /\ IF OfflineGuard(isOffline) \/ UserGuard(crud.userId)
     THEN Reject("createTask", <<"new">>)
     ELSE Issue("createTask", <<"new">>)

handleUpdateTask ==
  /\ CrudFrame
  /\ \E taskId \in TaskArgs :
       IF OfflineGuard(isOffline) THEN Reject("updateTask", taskId)
                                  ELSE Issue("updateTask", taskId)

handleDeleteTask ==
  /\ CrudFrame
  /\ \E taskId \in TaskArgs :
       IF OfflineGuard(isOffline) THEN Reject("deleteTask", taskId)
                                  ELSE Issue("deleteTask", taskId)

\* what the state setter of a handler does once its remote call has resolved
Applied(c) ==
  CASE c.handler = "createRoutine" ->
         /\ routines' = Append(routines, CreatedRoutine([name |-> 0, isActive |-> FALSE], nextId))
         /\ nextId' = nextId + 1
         /\ crud' = [crud EXCEPT !.pending = @ \ {c}]
    [] c.handler = "updateRoutine" ->
         /\ routines' = MergeById(routines, c.arg, CHOOSE u \in Updates : TRUE)
         /\ UNCHANGED nextId
         /\ crud' = [crud EXCEPT !.pending = @ \ {c}]
    [] c.handler = "deleteRoutine" ->
         /\ routines' = FilterOutId(routines, c.arg)
         /\ UNCHANGED nextId
         /\ crud' = [crud EXCEPT !.pending = @ \ {c}]
    [] c.handler = "createTask" ->
         /\ crud' = [crud EXCEPT !.pending = @ \ {c},
                                 !.tasks = Append(@, [id |-> ServerId(nextId), name |-> 0])]
         /\ nextId' = nextId + 1
         /\ UNCHANGED routines
    [] c.handler = "updateTask" ->
         /\ crud' = [crud EXCEPT !.pending = @ \ {c},
                                 !.tasks = MergeById(@, c.arg, [id |-> c.arg, name |-> 0])]
         /\ UNCHANGED <<routines, nextId>>
    [] c.handler = "deleteTask" ->
         /\ crud' = [crud EXCEPT !.pending = @ \ {c}, !.tasks = FilterOutId(@, c.arg)]
         /\ UNCHANGED <<routines, nextId>>

\* the remote call of a waiting handler resolves, and the handler sets its state
ServiceResolves ==
  /\ \E c \in crud.pending : Applied(c)
  /\ UNCHANGED <<passVars, opCount, isOffline, auth, taskLoad, taskManager, loads, bulk>>

\* the remote call of a waiting handler rejects: the catch block rethrows
ServiceRejects ==
  /\ \E c \in crud.pending : crud' = [crud EXCEPT !.pending = @ \ {c}]
  /\ UNCHANGED <<passVars, opCount, isOffline, routines, nextId, auth, taskLoad,
                 taskManager, loads, bulk>>

CrudInit ==
  /\ PassIdle
  /\ routines \in Fetched
  /\ isOffline \in BOOLEAN
  /\ crud \in [tasks : TaskLists, userId : {"null", "u1"}, pending : {{}},
               serviceCalls : {0},
               last : {[handler |-> "none", arg |-> <<"new">>, offline |-> FALSE,
                        result |-> "none"]}]
  /\ auth = Unused
  /\ taskLoad = Unused
  /\ taskManager = Unused
  /\ loads = Unused
  /\ bulk = Unused

CrudNext ==
  \/ handleCreateRoutine
  \/ handleUpdateRoutine
  \/ handleDeleteRoutine
  \/ handleCreateTask
  \/ handleUpdateTask
  \/ handleDeleteTask
  \/ ServiceResolves
  \/ ServiceRejects
  \/ ConnectivityChange

CrudSpec == CrudInit /\ [][CrudNext]_vars

HandlerStep ==
  \/ handleCreateRoutine
  \/ handleUpdateRoutine
  \/ handleDeleteRoutine
  \/ handleCreateTask
  \/ handleUpdateTask
  \/ handleDeleteTask

\* C23: a create, update or delete handler of useRoutines or useTasks that is
\* invoked while offline rejects, issues no remote call, and leaves both
\* in-memory collections as they were.
C23_OfflineHandlersReject ==
  [][(HandlerStep /\ isOffline) =>
       /\ crud'.last.result = "rejected"
       /\ crud'.serviceCalls = crud.serviceCalls
       /\ crud'.pending = crud.pending
       /\ routines' = routines
       /\ crud'.tasks = crud.tasks]_vars

\* every one of the six handlers has been rejected offline in some run, here
\* a task handler after a routine was created online
C23_Witness ==
  /\ crud.last.handler \in {"createTask", "updateTask", "deleteTask"}
  /\ crud.last.offline
  /\ crud.last.result = "rejected"
  /\ crud.serviceCalls > 0
  /\ Len(crud.tasks) > 0

\* ---------------------------------------------------------------------------
\* useAuth: checkSession and its retries
\* ---------------------------------------------------------------------------

\* the session checks followed in one run
MaxChecks == 8

\* the retryCount that checkSession reads: the effect that starts the check
\* has no dependencies and the timer calls the checkSession of the same
\* render, so every check reads the value captured at mount
ClosureRetryCount(a) == a.captured

\* if (retryCount < 3) { setTimeout(...) } else { setLoading(false) }
SchedulesRetry(a) == ClosureRetryCount(a) < 3

AuthFrame == UNCHANGED <<hookVars, crud, taskLoad, taskManager, loads, bulk>>

\* the users a session may carry: the role in the users table and the role
\* in the metadata of the session user ("none" when absent)
SessionUsers == [dbRole : {"none", "admin", "super_admin", "section-admin"},
                 metaRole : {"none", "user"}]

\* updateUserState: userData?.role || authUser.user_metadata?.role || 'user',
\* with super_admin written as super-admin; the user is modelled by its role
UserRole(u) ==
  LET role == IF u.dbRole # "none" THEN u.dbRole
              ELSE IF u.metaRole # "none" THEN u.metaRole ELSE "user"
  IN  IF role \in {"super_admin", "super-admin"} THEN "super-admin" ELSE role

\* the try block runs to its end or returns on a session error
CheckSessionReturns ==
  /\ auth.pc = "checking"
  /\ \/ auth' = [auth EXCEPT !.pc = "settled", !.loading = FALSE]
     \/ \E u \in SessionUsers :
          auth' = [auth EXCEPT !.pc = "settled", !.loading = FALSE, !.user = UserRole(u)]
  /\ AuthFrame

\* testConnection, getSession or updateUserState throws: the catch block
CheckSessionThrows ==
  /\ auth.pc = "checking"
  /\ auth' = [auth EXCEPT !.error = "Failed to check authentication status",
                          !.loading = FALSE,
                          !.pc = IF SchedulesRetry(auth) THEN "waiting" ELSE "settled"]
  /\ AuthFrame

\* the timer set by the catch block fires: setRetryCount(prev => prev + 1); checkSession()
RetryTimer ==
  /\ auth.pc = "waiting"
  /\ auth.checks < MaxChecks
  /\ auth' = [auth EXCEPT !.retryCount = @ + 1,
                          !.checks = @ + 1,
                          !.retries = @ + 1,
                          !.pc = "checking"]
  /\ AuthFrame

\* handleAuthChange(_event, session): the user of the session is installed;
\* without a session, or when updateUserState throws, the user is cleared
handleAuthChange ==
  /\ \/ auth' = [auth EXCEPT !.user = "null", !.loading = FALSE]
     \/ \E u \in SessionUsers :
          auth' = [auth EXCEPT !.user = UserRole(u), !.loading = FALSE]
  /\ AuthFrame

AuthInit ==
  /\ PassIdle
  /\ routines = <<>>
  /\ isOffline = FALSE
  /\ auth = [user |-> "null", loading |-> TRUE, error |-> "null", retryCount |-> 0,
             captured |-> 0, pc |-> "checking", checks |-> 1, retries |-> 0]
  /\ crud = Unused
  /\ taskLoad = Unused
  /\ taskManager = Unused
  /\ loads = Unused
  /\ bulk = Unused

AuthNext ==
  \/ CheckSessionReturns
  \/ CheckSessionThrows
  \/ RetryTimer
  \/ handleAuthChange

AuthSpec == AuthInit /\ [][AuthNext]_vars

\* C26: a session check that throws is retried at most 3 times; once the
\* maximum is reached no further retry is scheduled.
C26_RetriesBounded ==
  /\ auth.retries <= 3
  /\ (auth.retries = 3 => auth.pc # "waiting")

\* ---------------------------------------------------------------------------
\* useTasks: loadTasks and its automatic reloads
\* ---------------------------------------------------------------------------

\* the loadTasks calls followed in one run
MaxLoads == 6

\* the loadTasks closures: the retryCount and isOffline of the render that
\* created them (useCallback dependencies userId, retryCount, isOffline)
Closures == [retryCount : 0..MaxLoads, offline : BOOLEAN]

EmptyBag == [c \in Closures |-> 0]

BagAdd(b, c) == [b EXCEPT ![c] = @ + 1]

BagRemove(b, c) == [b EXCEPT ![c] = @ - 1]

BagSize(b) == LET RECURSIVE Sum(_)
                  Sum(S) == IF S = {} THEN 0
                            ELSE LET c == CHOOSE x \in S : TRUE IN b[c] + Sum(S \ {c})
              IN  Sum(Closures)

\* the loadTasks of the current render
CurrentClosure == [retryCount |-> taskLoad.retryCount, offline |-> isOffline]

\* if (!isOffline && retryCount < 3) { setTimeout(() => setRetryCount(prev => prev + 1), timeout) }
LoadSchedulesRetry(c) == ~c.offline /\ c.retryCount < 3

TaskLoadFrame == UNCHANGED <<passVars, routines, nextId, opCount, crud, auth, taskManager, loads, bulk>>

\* loadTasks() up to its first await: setLoading(true); setError(null)
StartLoad(t, c) ==
  [t EXCEPT !.inFlight = BagAdd(@, c), !.started = @ + 1, !.loading = TRUE, !.error = "null"]

\* the effect runs after the first render
Mount ==
  /\ ~taskLoad.mounted
  /\ taskLoad' = IF taskLoad.userId = "null"
                 THEN [taskLoad EXCEPT !.mounted = TRUE, !.tasks = "empty", !.loading = FALSE]
                 ELSE StartLoad([taskLoad EXCEPT !.mounted = TRUE], CurrentClosure)
  /\ UNCHANGED isOffline
  /\ TaskLoadFrame

Subscribed == taskLoad.mounted /\ taskLoad.userId # "null" /\ ~isOffline

\* a realtime change event: the subscription of the current effect calls loadTasks
RealtimeChange ==
  /\ Subscribed
  /\ taskLoad.started < MaxLoads
  /\ taskLoad' = StartLoad(taskLoad, CurrentClosure)
  /\ UNCHANGED isOffline
  /\ TaskLoadFrame

\* the page becomes visible: getSession() is awaited by the handler of the
\* current effect
handleVisibilityChange ==
  /\ Subscribed
  /\ taskLoad.started + BagSize(taskLoad.visible) < MaxLoads
  /\ taskLoad' = [taskLoad EXCEPT !.visible = BagAdd(@, CurrentClosure)]
  /\ UNCHANGED isOffline
  /\ TaskLoadFrame

\* getSession() of a visibility handler resolves: with a session the handler
\* calls the loadTasks it was created with
VisibilitySession ==
  /\ \E c \in Closures, session \in BOOLEAN :
       /\ taskLoad.visible[c] > 0
       /\ taskLoad' = IF session
                      THEN StartLoad([taskLoad EXCEPT !.visible = BagRemove(@, c)], c)
                      ELSE [taskLoad EXCEPT !.visible = BagRemove(@, c)]
  /\ UNCHANGED isOffline
  /\ TaskLoadFrame

\* a load reaches the end of its try block (or its offline return)
LoadCompletes ==
  /\ \E c \in Closures :
       /\ taskLoad.inFlight[c] > 0
       /\ taskLoad' = [taskLoad EXCEPT !.inFlight = BagRemove(@, c),
                                       !.tasks = IF c.offline THEN "empty" ELSE "fetched",
                                       !.error = IF c.offline THEN "offline" ELSE "null",
                                       !.loading = FALSE]
  /\ UNCHANGED isOffline
  /\ TaskLoadFrame

\* a load throws (getUser, testConnection, getSession or fetchTasks): the
\* catch block
LoadFails ==
  /\ \E c \in Closures :
       /\ taskLoad.inFlight[c] > 0
       /\ taskLoad' = [taskLoad EXCEPT !.inFlight = BagRemove(@, c),
                                       !.error = "failed",
                                       !.timers = IF LoadSchedulesRetry(c) THEN @ + 1 ELSE @,
                                       !.loading = FALSE]
  /\ UNCHANGED isOffline
  /\ TaskLoadFrame

\* a retry timer fires: setRetryCount(prev => prev + 1); loadTasks is created
\* anew and the effect runs again, calling it
RetryTimerFires ==
  /\ taskLoad.timers > 0
  /\ taskLoad.started < MaxLoads
  /\ LET t == [taskLoad EXCEPT !.timers = @ - 1, !.retryCount = @ + 1, !.autoRetries = @ + 1]
     IN  taskLoad' = StartLoad(t, [retryCount |-> t.retryCount, offline |-> isOffline])
  /\ UNCHANGED isOffline
  /\ TaskLoadFrame

\* connectivity changes: loadTasks is created anew and the effect runs again
TasksConnectivityChange ==
  /\ taskLoad.mounted
  /\ taskLoad.userId # "null"
  /\ taskLoad.started < MaxLoads
  /\ isOffline' = ~isOffline
  /\ taskLoad' = StartLoad(taskLoad, [retryCount |-> taskLoad.retryCount, offline |-> ~isOffline])
  /\ TaskLoadFrame

TaskLoadInit ==
  /\ PassIdle
  /\ routines = <<>>
  /\ isOffline \in BOOLEAN
  /\ taskLoad \in [userId : {"null", "u1"}, mounted : {FALSE}, tasks : {"empty"},
                   loading : {TRUE}, error : {"null"}, retryCount : {0},
                   inFlight : {EmptyBag}, visible : {EmptyBag}, timers : {0},
                   started : {0}, autoRetries : {0}]
  /\ crud = Unused
  /\ auth = Unused
  /\ taskManager = Unused
  /\ loads = Unused
  /\ bulk = Unused

TaskLoadNext ==
  \/ Mount
  \/ RealtimeChange
  \/ handleVisibilityChange
  \/ VisibilitySession
  \/ LoadCompletes
  \/ LoadFails
  \/ RetryTimerFires
  \/ TasksConnectivityChange

TaskLoadSpec == TaskLoadInit /\ [][TaskLoadNext]_vars

\* C27: retryCount never exceeds 3 and at most 3 automatic retries of
\* loadTasks are triggered, however the failing loads started by mount,
\* realtime change events and visibility changes interleave.
C27_ReloadsBounded ==
  /\ taskLoad.retryCount <= 3
  /\ taskLoad.autoRetries <= 3

\* ---------------------------------------------------------------------------
\* TaskManager: optimistic task creation
\* ---------------------------------------------------------------------------

\* the creations followed in one run
MaxCreates == 2

\* the functions passed as onCreateTask: useTasks' handleCreateTask, which
\* rethrows a failure, and AdminDashboard's handleCreateTask wrapper
Providers == {"useTasks", "AdminDashboard"}

\* AdminDashboard's handleCreateTask catches the error of onCreateTask and of
\* refreshTasks, shows an error toast and returns normally
Rethrows(provider) == provider = "useTasks"

\* t.id.startsWith('temp-')
IsPlaceholder(id) == id[1] = "temp"

\* id: `temp-${Date.now()}`, one per creation
Placeholder(k) == <<"temp", k>>

\* setLocalTasks(prev => prev.filter(t => !t.id.startsWith('temp-')))
WithoutPlaceholders(seq) == SelectSeq(seq, LAMBDA id : ~IsPlaceholder(id))

\* the task lists passed as the tasks prop, by identifier
TaskProps == {[i \in 1..n |-> <<"t", i>>] : n \in 0..MaxTasks}

TaskManagerFrame == UNCHANGED <<hookVars, crud, auth, taskLoad, loads, bulk>>

\* TaskManager's handleCreateTask up to its await: the placeholder is put in
\* front of the local list and onCreateTask is called
CreateTaskOptimistic ==
  /\ taskManager.created < MaxCreates
  /\ LET k == taskManager.created + 1
     IN  taskManager' = [taskManager EXCEPT !.created = k,
                                            !.pending = @ \cup {k},
                                            !.localTasks = <<Placeholder(k)>> \o @]
  /\ TaskManagerFrame

\* the remote creation succeeds: the tasks prop receives the created task and
\* the effect on the prop replaces the local list; the wrapper then awaits
\* refreshTasks, which may reject
CreateTaskSucceeds ==
  /\ \E k \in taskManager.pending, refreshOk \in BOOLEAN :
       LET created == Append(taskManager.tasks, ServerId(k))
           shown   == IF Rethrows(taskManager.provider)
                      THEN {<<k, "success", "TaskManager">>}
                      ELSE IF refreshOk
                      THEN {<<k, "success", "AdminDashboard">>, <<k, "success", "TaskManager">>}
                      ELSE {<<k, "error", "AdminDashboard">>, <<k, "success", "TaskManager">>}
       IN  /\ Rethrows(taskManager.provider) => refreshOk
           /\ taskManager' = [taskManager EXCEPT !.pending = @ \ {k},
                                                 !.tasks = created,
                                                 !.localTasks = created,
                                                 !.toasts = @ \cup shown]
  /\ TaskManagerFrame

\* the remote creation fails: onCreateTask rejects only if the provider
\* rethrows, and only then does TaskManager's catch block run
CreateTaskFails ==
  /\ \E k \in taskManager.pending :
       taskManager' =
         IF Rethrows(taskManager.provider)
         THEN [taskManager EXCEPT !.pending = @ \ {k},
                                  !.failed = @ \cup {k},
                                  !.toasts = @ \cup {<<k, "error", "TaskManager">>},
                                  !.localTasks = WithoutPlaceholders(@)]
         ELSE [taskManager EXCEPT !.pending = @ \ {k},
                                  !.failed = @ \cup {k},
                                  !.toasts = @ \cup {<<k, "error", "AdminDashboard">>,
                                                     <<k, "success", "TaskManager">>}]
  /\ TaskManagerFrame

\* the tasks prop changes: useEffect(() => setLocalTasks(tasks), [tasks])
TasksPropChange ==
  /\ \E new \in TaskProps \ {taskManager.tasks} :
       taskManager' = [taskManager EXCEPT !.tasks = new, !.localTasks = new]
  /\ TaskManagerFrame

TaskManagerInit ==
  /\ PassIdle
  /\ routines = <<>>
  /\ isOffline = FALSE
  /\ \E provider \in Providers, tasks \in TaskProps :
       taskManager = [provider |-> provider, tasks |-> tasks, localTasks |-> tasks,
                      pending |-> {}, failed |-> {}, toasts |-> {}, created |-> 0]
  /\ crud = Unused
  /\ auth = Unused
  /\ taskLoad = Unused
  /\ loads = Unused
  /\ bulk = Unused

TaskManagerNext ==
  \/ CreateTaskOptimistic
  \/ CreateTaskSucceeds
  \/ CreateTaskFails
  \/ TasksPropChange

TaskManagerSpec == TaskManagerInit /\ [][TaskManagerNext]_vars

\* C28: with AdminDashboard's handleCreateTask as onCreateTask, once a
\* creation has failed its placeholder is no longer in TaskManager's local
\* task list and no success notification is shown for it.
C28_FailedCreateRemovesPlaceholder ==
  taskManager.provider = "AdminDashboard" =>
    \A k \in taskManager.failed :
      /\ \A i \in DOMAIN taskManager.localTasks : taskManager.localTasks[i] # Placeholder(k)
      /\ \A src \in Providers \cup {"TaskManager"} : <<k, "success", src>> \notin taskManager.toasts

\* ---------------------------------------------------------------------------
\* useRoutines: overlapping loadRoutines calls
\* ---------------------------------------------------------------------------

\* the loadRoutines calls followed in one run
MaxFetches == 3

LoadsFrame ==
  UNCHANGED <<stubStore, store, syncInProgress, renderedSync, nextId, pc, offlineRoutines,
              syncedRoutines, hasChanges, syncErrors, idx, calls, failed, settled, outcome,
              opCount, crud, auth, taskLoad, taskManager, bulk>>

\* loadRoutines() online, up to `await fetchRoutines()`: the request reaches
\* the service, which answers with its contents at that time
FetchStarted(l, data) ==
  [l EXCEPT !.started = @ + 1,
            !.inFlight = @ \cup {[n |-> l.started + 1, data |-> data]},
            !.latest = data,
            !.latestFailed = FALSE]

\* loadRoutines() offline runs to its end at once: setRoutines([])
OfflineLoad(l) ==
  [l EXCEPT !.started = @ + 1, !.latest = <<>>, !.latestFailed = FALSE]

\* loadRoutines() called by the visibility handler or by refreshRoutines
\* (both only online)
LoadRoutinesStarts ==
  /\ ~isOffline
  /\ loads.started < MaxFetches
  /\ loads' = FetchStarted(loads, loads.server)
  /\ error' = "null"
  /\ UNCHANGED <<routines, isOffline>>
  /\ LoadsFrame

\* the routines table changes; online, the realtime subscription calls
\* loadRoutines()
RemoteChange ==
  /\ isOffline \/ loads.started < MaxFetches
  /\ \E data \in Fetched \ {loads.server} :
       /\ loads' = IF isOffline THEN [loads EXCEPT !.server = data]
                   ELSE FetchStarted([loads EXCEPT !.server = data], data)
       /\ error' = IF isOffline THEN error ELSE "null"
  /\ UNCHANGED <<routines, isOffline>>
  /\ LoadsFrame

\* fetchRoutines() of a call in flight resolves: setRoutines(data)
FetchResolves ==
  /\ \E l \in loads.inFlight :
       /\ routines' = l.data
       /\ loads' = [loads EXCEPT !.inFlight = @ \ {l}]
  /\ UNCHANGED <<error, isOffline>>
  /\ LoadsFrame

\* fetchRoutines() of a call in flight rejects: setError(...)
FetchRejects ==
  /\ \E l \in loads.inFlight :
       loads' = [loads EXCEPT !.inFlight = @ \ {l},
                              !.latestFailed = IF l.n = loads.started THEN TRUE ELSE @]
  /\ error' = OpError
  /\ UNCHANGED <<routines, isOffline>>
  /\ LoadsFrame

\* connectivity changes: loadRoutines is created anew and the effect runs
\* again, calling it
LoadsConnectivityChange ==
  /\ loads.started < MaxFetches
  /\ isOffline' = ~isOffline
  /\ IF isOffline
     THEN /\ loads' = FetchStarted(loads, loads.server)
          /\ error' = "null"
          /\ UNCHANGED routines
     ELSE /\ loads' = OfflineLoad(loads)
          /\ error' = OpError
          /\ routines' = <<>>
  /\ LoadsFrame

\* the state after mount: the effect has called loadRoutines()
LoadsInit ==
  /\ PassIdle
  /\ routines = <<>>
  /\ isOffline = FALSE
  /\ \E data \in Fetched :
       loads = FetchStarted([server |-> data, inFlight |-> {}, started |-> 0,
                             latest |-> <<>>, latestFailed |-> FALSE], data)
  /\ crud = Unused
  /\ auth = Unused
  /\ taskLoad = Unused
  /\ taskManager = Unused
  /\ bulk = Unused

LoadsNext ==
  \/ LoadRoutinesStarts
  \/ RemoteChange
  \/ FetchResolves
  \/ FetchRejects
  \/ LoadsConnectivityChange

LoadsSpec == LoadsInit /\ [][LoadsNext]_vars

\* C29: once every loadRoutines call has completed, the in-memory collection
\* is the result of the call started last (unless that call failed), never
\* the result of an older fetch that finished later.
C29_LatestFetchWins ==
  (loads.inFlight = {} /\ ~loads.latestFailed) => routines = loads.latest

\* ---------------------------------------------------------------------------
\* bulkImportTeachers
\* ---------------------------------------------------------------------------

\* the longest input followed
MaxItems == 2

\* what the service calls made for one item do: the name check throws, the
\* name exists, the insert reports an error, the teacher is created and the
\* course association throws, the teacher is created and nothing throws
ItemReplies == {"checkThrows", "exists", "createError", "courseThrows", "created"}

\* an input item, by what the loop reads of it, with the replies it will get
Items == [department : BOOLEAN, course_code : BOOLEAN, reply : ItemReplies]

Inputs == UNION {[1..n -> Items] : n \in 0..MaxItems}

\* user?.user_metadata?.role, or "throws" when getUser() rejects
Roles == {"none", "user", "admin", "section_admin", "throws"}

\* !(!userRole || (userRole !== 'admin' && userRole !== 'section_admin'))
PermissionOk(role) == role \in {"admin", "section_admin"}

\* the body of the loop for one item: "error" when it pushes an error (a
\* continue or the inner catch), "success" when it reaches successCount++
ItemOutcome(role, hasSection, item) ==
  IF item.reply = "checkThrows" THEN "error"
  ELSE IF item.reply = "exists" THEN "error"
  ELSE IF role = "section_admin" /\ ~item.department /\ ~hasSection THEN "error"
  ELSE IF item.reply = "createError" THEN "error"
  ELSE IF item.course_code /\ item.reply = "courseThrows" THEN "error"
  ELSE "success"

\* a tally that forgets the errors
TallyDropsErrors(b, result) ==
  IF result = "success" THEN [b EXCEPT !.successCount = @ + 1, !.i = @ + 1]
  ELSE [b EXCEPT !.i = @ + 1]

\* successCount++ or errors.push({index: i, ...}), then i++
Tally(b, result) ==
  IF result = "success" THEN [b EXCEPT !.successCount = @ + 1, !.i = @ + 1]
  ELSE [b EXCEPT !.errors = Append(@, b.i), !.i = @ + 1]

BulkFrame == UNCHANGED <<hookVars, crud, auth, taskLoad, taskManager, loads>>

\* getUser() and the role test; a failure is caught by the outer catch,
\* which pushes the error with index -1
CheckPermission ==
  /\ bulk.pc = "start"
  /\ bulk' = IF PermissionOk(bulk.role)
             THEN [bulk EXCEPT !.pc = "loop"]
             ELSE [bulk EXCEPT !.pc = "returned", !.errors = Append(@, -1)]
  /\ BulkFrame

\* one iteration of the loop
ImportItem ==
  /\ bulk.pc = "loop"
  /\ bulk.i < Len(bulk.teachersData)
  /\ bulk' = Tally(bulk, ItemOutcome(bulk.role, bulk.hasSection, bulk.teachersData[bulk.i + 1]))
  /\ BulkFrame

\* return { success: successCount, errors }
ReturnResult ==
  /\ bulk.pc = "loop"
  /\ bulk.i >= Len(bulk.teachersData)
  /\ bulk' = [bulk EXCEPT !.pc = "returned"]
  /\ BulkFrame

BulkInit ==
  /\ PassIdle
  /\ routines = <<>>
  /\ isOffline = FALSE
  /\ bulk \in [pc : {"start"}, role : Roles, hasSection : BOOLEAN, teachersData : Inputs,
               i : {0}, successCount : {0}, errors : {<<>>}]
  /\ crud = Unused
  /\ auth = Unused
  /\ taskLoad = Unused
  /\ taskManager = Unused
  /\ loads = Unused

BulkNext ==
  \/ CheckPermission
  \/ ImportItem
  \/ ReturnResult

BulkSpec == BulkInit /\ [][BulkNext]_vars

\* C30: bulkImportTeachers accounts for every input item exactly once: when
\* the permission check passes, the returned success count plus the number of
\* returned errors is the number of input items and every error index is an
\* input index (none twice); when it fails, success is 0 and the only error
\* has index -1.
C30_EveryItemAccountedOnce ==
  bulk.pc = "returned" =>
    IF PermissionOk(bulk.role)
    THEN /\ bulk.successCount + Len(bulk.errors) = Len(bulk.teachersData)
         /\ \A k \in DOMAIN bulk.errors : bulk.errors[k] \in 0..(Len(bulk.teachersData) - 1)
         /\ \A k, m \in DOMAIN bulk.errors : bulk.errors[k] = bulk.errors[m] => k = m
    ELSE /\ bulk.successCount = 0
         /\ bulk.errors = <<-1>>

\* an import by a section admin has returned with a created teacher and a
\* rejected item
C30_Witness ==
  /\ bulk.pc = "returned"
  /\ bulk.role = "section_admin"
  /\ bulk.successCount > 0
  /\ Len(bulk.errors) > 0

====
